---- MODULE Spec2Model ----
(***************************************************************************)
(* Delta-sync cache of the YNAB MCP server: the JSON file store            *)
(* (cache/index.ts), the payee sync (cache/payees.ts) and the category     *)
(* sync (cache/categories), run against a remote that issues a monotonic   *)
(* server_knowledge cursor per budget.                                     *)
(***************************************************************************)
EXTENDS Integers, Sequences, FiniteSets, TLC

VARIABLES
    files,            \* files[b][name]: content of ~/.ynab-mcp/cache/<b>/<name>
    remoteKnowledge,  \* remoteKnowledge[b]: the remote's server_knowledge of budget b
    remotePayees,     \* remotePayees[b]: the remote's payees, by id, each stamped with
                      \*   the server_knowledge of its last change
    remoteGroups,     \* remoteGroups[b]: the remote's category groups, by id
    remoteCategories, \* remoteCategories[b]: the remote's categories, by id
    pc,               \* pc[t]: where caller t is ("idle", or "returned" from a sync)
    result,           \* result[t]: what t's sync returned, and what it was given
    lastKnowledge,    \* lastKnowledge[b][name]: the server_knowledge the remote returned
                      \*   to the last completed sync of that file, if any
    requestsUsed,     \* rateLimit module: requests counted in the current hour
    lastUpdated,      \* rateLimit module: when the count last changed, if ever
    cacheLoaded,      \* rateLimit module: rate-limit.json has been looked at
    globalFiles       \* globalFiles[name]: content of ~/.ynab-mcp/cache/<name>

\* The state of the rate-limit tracker, in memory and on disk.
rateLimitVars == <<requestsUsed, lastUpdated, cacheLoaded, globalFiles>>

vars == <<files, remoteKnowledge, remotePayees, remoteGroups, remoteCategories,
          pc, result, lastKnowledge, rateLimitVars>>

----------------------------------------------------------------------------
\* Bounds of the model.

MaxKnowledge == 3

Budgets == {"B1"}
Callers == {"t1"}
PayeeOrder == <<"p1", "p2">>
GroupOrder == <<"g1", "g2">>
CategoryOrder == <<"c1", "c2">>
Names == {<<"A", "b">>, <<"a">>}
Null == "<null>"
\* p1 is an ordinary payee, p2 the transfer payee of an account.
TransferOf == [id \in {"p1", "p2"} |-> IF id = "p1" THEN Null ELSE "acct-1"]
\* The name a record is created with: by its place among the ids.
FirstName(id) == IF id \in {"p1", "g1", "c1"} THEN <<"a">> ELSE <<"A", "b">>

Range(s) == {s[i] : i \in 1..Len(s)}
PayeeIds == Range(PayeeOrder)
GroupIds == Range(GroupOrder)
CategoryIds == Range(CategoryOrder)

PAYEES_CACHE_FILE == "payees.json"
CATEGORIES_CACHE_FILE == "categories.json"
FileNames == {PAYEES_CACHE_FILE, CATEGORIES_CACHE_FILE}

\* Optional values (T | undefined).
Absent == [some |-> FALSE]
Some(v) == [some |-> TRUE, val |-> v]

----------------------------------------------------------------------------
\* The store: cache/index.ts.

NoFile == [state |-> "nofile"]
Corrupt == [state |-> "corrupt"]

\* JSON.stringify(data, null, 2): the text of a file that parses back.
Stringify(data) == [state |-> "json", value |-> data]

\* readCache without its catch: the SyntaxError of JSON.parse leaves the
\* function instead of a value.
readCacheRethrows(fs, budgetId, filename) ==
    LET content == fs[budgetId][filename] IN
    IF content.state = "nofile" THEN Absent
    ELSE IF content.state = "corrupt" THEN [some |-> FALSE, threw |-> TRUE]
    ELSE Some(content.value)

\* readCache: undefined when the file does not exist, or when reading or
\* parsing it throws; the parsed value otherwise.
readCache(fs, budgetId, filename) ==
    LET content == fs[budgetId][filename] IN
    IF content.state = "nofile" THEN Absent
    ELSE IF content.state = "corrupt" THEN Absent
    ELSE Some(content.value)

\* writeCache opening the file with the flag "wx": an existing file is kept.
writeCacheKeepsExisting(fs, budgetId, filename, data) ==
    IF fs[budgetId][filename] = NoFile
    THEN [fs EXCEPT ![budgetId][filename] = Stringify(data)]
    ELSE fs

\* writeCache: the whole file is replaced.
writeCache(fs, budgetId, filename, data) ==
    [fs EXCEPT ![budgetId][filename] = Stringify(data)]

\* deleteCache: removes the file when it exists.
deleteCache(fs, budgetId, filename) ==
    [fs EXCEPT ![budgetId][filename] = NoFile]

\* clearBudgetCache with the base cache directory removed in place of the
\* budget's own.
clearBudgetCacheRemovesBaseDir(fs, budgetId) ==
    [b \in DOMAIN fs |-> [f \in DOMAIN fs[b] |-> NoFile]]

\* clearBudgetCache: removes the budget's directory with every file in it.
clearBudgetCache(fs, budgetId) ==
    [fs EXCEPT ![budgetId] = [f \in DOMAIN fs[budgetId] |-> NoFile]]

\* How a call of the file system can fail: not at all, before the file is
\* touched (EACCES on open, on unlink, on rm), or, for a write, after the file
\* was opened and truncated (ENOSPC).
WriteFaults == {"none", "open", "write"}
RemoveFaults == {"none", "remove"}

\* writeCache as a call: writeFileSync is not guarded, so what it throws
\* leaves writeCache. A write that fails after the open leaves a file that
\* does not parse.
writeCacheOutcome(fs, budgetId, filename, data, fault) ==
    IF fault = "none"
    THEN [fs |-> writeCache(fs, budgetId, filename, data), threw |-> FALSE]
    ELSE IF fault = "open"
         THEN [fs |-> fs, threw |-> TRUE]
         ELSE [fs |-> [fs EXCEPT ![budgetId][filename] = Corrupt], threw |-> TRUE]

\* deleteCache as a call: true when the file existed and was unlinked, false
\* when it did not exist, and false also when unlinkSync threw: the catch
\* logs the error and returns false.
deleteCacheOutcome(fs, budgetId, filename, fault) ==
    IF fs[budgetId][filename] # NoFile
    THEN IF fault = "none"
         THEN [fs |-> deleteCache(fs, budgetId, filename),
               returned |-> TRUE, threw |-> FALSE]
         ELSE [fs |-> fs, returned |-> FALSE, threw |-> FALSE]
    ELSE [fs |-> fs, returned |-> FALSE, threw |-> FALSE]

\* clearBudgetCache as a call: rmSync is not guarded. A failing rmSync has
\* removed the files `removed` by the time it throws.
clearBudgetCacheOutcome(fs, budgetId, fault, removed) ==
    IF fault = "none"
    THEN [fs |-> clearBudgetCache(fs, budgetId), threw |-> FALSE]
    ELSE [fs |-> [fs EXCEPT ![budgetId] =
                    [f \in DOMAIN @ |-> IF f \in removed THEN NoFile ELSE @[f]]],
          threw |-> TRUE]

----------------------------------------------------------------------------
\* Sequence helpers (Array.prototype.findIndex / filter / map).

\* findIndex by id: the first position holding id, 0 when there is none.
FindIndex(list, id) ==
    IF \E i \in 1..Len(list) : list[i].id = id
    THEN CHOOSE i \in 1..Len(list) :
            /\ list[i].id = id
            /\ \A j \in 1..(i - 1) : list[j].id # id
    ELSE 0

\* list.filter((r) => !r.deleted).length
CountNotDeleted(list) ==
    Cardinality({i \in 1..Len(list) : ~list[i].deleted})

\* list.filter((r) => !r.deleted && !r.hidden).length
CountActive(list) ==
    Cardinality({i \in 1..Len(list) : ~list[i].deleted /\ ~list[i].hidden})

\* x || null
OrNull(x) == IF x \in {Null, ""} THEN Null ELSE x

----------------------------------------------------------------------------
\* The remote: api.payees.getPayees(budgetId, last_knowledge_of_server).

\* The payee as the API returns it.
ApiPayee(r) ==
    [id |-> r.id, name |-> r.name, deleted |-> r.deleted,
     transfer_account_id |-> r.transfer_account_id]

\* Whether a remote record is part of the answer to a request with `cursor`.
ChangedSince(r, cursor) == ~cursor.some \/ r.changed > cursor.val

RECURSIVE PayeesSince(_, _, _)
PayeesSince(order, rp, cursor) ==
    IF order = <<>> THEN <<>>
    ELSE LET id == Head(order)
             rest == PayeesSince(Tail(order), rp, cursor)
         IN IF id \in DOMAIN rp /\ ChangedSince(rp[id], cursor)
            THEN <<ApiPayee(rp[id])>> \o rest
            ELSE rest

\* No cursor: the whole collection. Cursor N: the payees changed since N.
\* Either way with the remote's current server_knowledge.
getPayees(rp, knowledge, cursor) ==
    [payees |-> PayeesSince(PayeeOrder, rp, cursor),
     server_knowledge |-> knowledge]

----------------------------------------------------------------------------
\* syncPayees: cache/payees.ts.

CachedPayee(payee) ==
    [id |-> payee.id, name |-> payee.name, deleted |-> payee.deleted,
     transfer_account_id |-> OrNull(payee.transfer_account_id)]

ZeroStats == [total |-> 0, new |-> 0, updated |-> 0, deleted |-> 0]

\* MergePayee with a found payee counted but its cached record left as it was.
MergePayeeKeepsOld(acc, payee) ==
    LET idx == FindIndex(acc.payees, payee.id) IN
    IF idx > 0
    THEN [payees |-> acc.payees,
          stats |->
            IF payee.deleted /\ ~acc.payees[idx].deleted
            THEN [acc.stats EXCEPT !.deleted = @ + 1]
            ELSE IF ~payee.deleted
                 THEN [acc.stats EXCEPT !.updated = @ + 1]
                 ELSE acc.stats]
    ELSE [payees |-> Append(acc.payees, CachedPayee(payee)),
          stats |-> [acc.stats EXCEPT !.new = @ + 1]]

\* MergePayee with every payee of the answer pushed, found or not.
MergePayeeAlwaysPushes(acc, payee) ==
    [payees |-> Append(acc.payees, CachedPayee(payee)),
     stats |-> [acc.stats EXCEPT !.new = @ + 1]]

\* MergePayee storing, as the deleted flag of a found payee, the test of line 59
\* (deleted now and not before) in place of the flag of the answer.
MergePayeeStoresTransition(acc, payee) ==
    LET idx == FindIndex(acc.payees, payee.id) IN
    IF idx > 0
    THEN [payees |-> [acc.payees EXCEPT ![idx] =
                        [CachedPayee(payee) EXCEPT
                           !.deleted = payee.deleted /\ ~acc.payees[idx].deleted]],
          stats |->
            IF payee.deleted /\ ~acc.payees[idx].deleted
            THEN [acc.stats EXCEPT !.deleted = @ + 1]
            ELSE IF ~payee.deleted
                 THEN [acc.stats EXCEPT !.updated = @ + 1]
                 ELSE acc.stats]
    ELSE [payees |-> Append(acc.payees, CachedPayee(payee)),
          stats |-> [acc.stats EXCEPT !.new = @ + 1]]

\* MergePayee with a payee that arrives deleted taken out of the list.
MergePayeeDropsDeleted(acc, payee) ==
    LET idx == FindIndex(acc.payees, payee.id) IN
    IF idx > 0
    THEN IF payee.deleted
         THEN [payees |-> SubSeq(acc.payees, 1, idx - 1)
                             \o SubSeq(acc.payees, idx + 1, Len(acc.payees)),
               stats |-> [acc.stats EXCEPT !.deleted = @ + 1]]
         ELSE [payees |-> [acc.payees EXCEPT ![idx] = CachedPayee(payee)],
               stats |-> [acc.stats EXCEPT !.updated = @ + 1]]
    ELSE [payees |-> Append(acc.payees, CachedPayee(payee)),
          stats |-> [acc.stats EXCEPT !.new = @ + 1]]

\* MergePayee with line 61 an unconditional count: a found payee is counted
\* as updated also when it was counted as deleted.
MergePayeeCountsTwice(acc, payee) ==
    LET idx == FindIndex(acc.payees, payee.id) IN
    IF idx > 0
    THEN [payees |-> [acc.payees EXCEPT ![idx] = CachedPayee(payee)],
          stats |->
            IF payee.deleted /\ ~acc.payees[idx].deleted
            THEN [acc.stats EXCEPT !.deleted = @ + 1, !.updated = @ + 1]
            ELSE [acc.stats EXCEPT !.updated = @ + 1]]
    ELSE [payees |-> Append(acc.payees, CachedPayee(payee)),
          stats |-> [acc.stats EXCEPT !.new = @ + 1]]

\* One turn of the loop over response.data.payees (payees.ts 55-80).
\* MergePayee with a payee that arrives deleted and is not cached appended
\* without being counted.
MergePayeeCountsLiveNew(acc, payee) ==
    LET idx == FindIndex(acc.payees, payee.id) IN
    IF idx > 0
    THEN [payees |-> [acc.payees EXCEPT ![idx] = CachedPayee(payee)],
          stats |->
            IF payee.deleted /\ ~acc.payees[idx].deleted
            THEN [acc.stats EXCEPT !.deleted = @ + 1]
            ELSE IF ~payee.deleted
                 THEN [acc.stats EXCEPT !.updated = @ + 1]
                 ELSE acc.stats]
    ELSE [payees |-> Append(acc.payees, CachedPayee(payee)),
          stats |-> IF payee.deleted THEN acc.stats
                    ELSE [acc.stats EXCEPT !.new = @ + 1]]

MergePayee(acc, payee) ==
    LET idx == FindIndex(acc.payees, payee.id) IN
    IF idx > 0
    THEN [payees |-> [acc.payees EXCEPT ![idx] = CachedPayee(payee)],
          stats |->
            IF payee.deleted /\ ~acc.payees[idx].deleted
            THEN [acc.stats EXCEPT !.deleted = @ + 1]
            ELSE IF ~payee.deleted
                 THEN [acc.stats EXCEPT !.updated = @ + 1]
                 ELSE acc.stats]
    ELSE [payees |-> Append(acc.payees, CachedPayee(payee)),
          stats |-> [acc.stats EXCEPT !.new = @ + 1]]

RECURSIVE MergePayees(_, _)
MergePayees(acc, list) ==
    IF list = <<>> THEN acc
    ELSE MergePayees(MergePayee(acc, Head(list)), Tail(list))

RECURSIVE MapCachedPayee(_)
MapCachedPayee(list) ==
    IF list = <<>> THEN <<>>
    ELSE <<CachedPayee(Head(list))>> \o MapCachedPayee(Tail(list))

\* PayeesMerged without line 82: the cursor of the loaded cache is kept.
PayeesMergedKeepsCursor(existing, response, now) ==
    LET m == MergePayees([payees |-> existing.val.payees, stats |-> ZeroStats],
                         response.payees)
    IN [cache |-> [existing.val EXCEPT !.payees = m.payees,
                                       !.last_synced = now],
        stats |-> m.stats]

\* The delta branch (payees.ts 51-83): the answer merged into a copy of the
\* loaded cache, the cursor and the stamp replaced.
PayeesMerged(existing, response, now) ==
    LET m == MergePayees([payees |-> existing.val.payees, stats |-> ZeroStats],
                         response.payees)
    IN [cache |-> [existing.val EXCEPT
                     !.payees = m.payees,
                     !.server_knowledge = response.server_knowledge,
                     !.last_synced = now],
        stats |-> m.stats]

\* PayeesFresh with every record of the answer counted as new.
PayeesFreshCountsAll(response, now) ==
    [cache |-> [server_knowledge |-> response.server_knowledge,
                last_synced |-> now,
                payees |-> MapCachedPayee(response.payees)],
     stats |-> [ZeroStats EXCEPT !.new = Len(response.payees)]]

\* The first-sync branch (payees.ts 84-97).
PayeesFresh(response, now) ==
    [cache |-> [server_knowledge |-> response.server_knowledge,
                last_synced |-> now,
                payees |-> MapCachedPayee(response.payees)],
     stats |-> [ZeroStats EXCEPT !.new = CountNotDeleted(response.payees)]]

\* PayeesOutcome with the total counted on the loaded cache, before the merge.
PayeesOutcomeCountsBefore(existing, response, now) ==
    LET merged == IF existing.some
                  THEN PayeesMerged(existing, response, now)
                  ELSE PayeesFresh(response, now)
    IN [cache |-> merged.cache,
        stats |-> [merged.stats EXCEPT
                     !.total = IF existing.some
                               THEN CountNotDeleted(existing.val.payees)
                               ELSE CountNotDeleted(merged.cache.payees)]]

\* PayeesOutcome with the loaded cache ignored: every answer taken as a first one.
PayeesOutcomeAlwaysFresh(existing, response, now) ==
    LET merged == PayeesFresh(response, now)
    IN [cache |-> merged.cache,
        stats |-> [merged.stats EXCEPT
                     !.total = CountNotDeleted(merged.cache.payees)]]

\* The cache and statistics syncPayees builds from what it loaded and what the
\* remote answered (payees.ts 48-99), `now` being new Date().toISOString().
PayeesOutcome(existing, response, now) ==
    LET merged == IF existing.some
                  THEN PayeesMerged(existing, response, now)
                  ELSE PayeesFresh(response, now)
    IN [cache |-> merged.cache,
        stats |-> [merged.stats EXCEPT
                     !.total = CountNotDeleted(merged.cache.payees)]]

----------------------------------------------------------------------------
\* The remote: api.categories.getCategories(budgetId, last_knowledge_of_server).

\* The category as the API returns it.
ApiCategory(c) ==
    [id |-> c.id, name |-> c.name, category_group_id |-> c.category_group_id,
     hidden |-> c.hidden, deleted |-> c.deleted, note |-> c.note,
     budgeted |-> c.budgeted, activity |-> c.activity, balance |-> c.balance,
     goal_type |-> c.goal_type,
     goal_percentage_complete |-> c.goal_percentage_complete]

RECURSIVE CategoriesSince(_, _, _, _)
CategoriesSince(order, rc, groupId, cursor) ==
    IF order = <<>> THEN <<>>
    ELSE LET id == Head(order)
             rest == CategoriesSince(Tail(order), rc, groupId, cursor)
         IN IF /\ id \in DOMAIN rc
               /\ rc[id].category_group_id = groupId
               /\ ChangedSince(rc[id], cursor)
            THEN <<ApiCategory(rc[id])>> \o rest
            ELSE rest

\* The group as the API returns it, with the categories of it that are part
\* of the answer nested in it.
ApiGroup(g, rc, cursor) ==
    [id |-> g.id, name |-> g.name, hidden |-> g.hidden, deleted |-> g.deleted,
     categories |-> CategoriesSince(CategoryOrder, rc, g.id, cursor)]

RECURSIVE GroupsSince(_, _, _, _)
GroupsSince(order, rg, rc, cursor) ==
    IF order = <<>> THEN <<>>
    ELSE LET id == Head(order)
             rest == GroupsSince(Tail(order), rg, rc, cursor)
         IN IF /\ id \in DOMAIN rg
               /\ \/ ChangedSince(rg[id], cursor)
                  \/ \E c \in DOMAIN rc :
                        /\ rc[c].category_group_id = id
                        /\ ChangedSince(rc[c], cursor)
            THEN <<ApiGroup(rg[id], rc, cursor)>> \o rest
            ELSE rest

\* No cursor: every group with every category of it. Cursor N: the groups
\* changed since N or holding a category changed since N, each with its
\* categories changed since N.
getCategories(rg, rc, knowledge, cursor) ==
    [category_groups |-> GroupsSince(GroupOrder, rg, rc, cursor),
     server_knowledge |-> knowledge]

----------------------------------------------------------------------------
\* syncCategories: cache/categories.

CachedGroup(group) ==
    [id |-> group.id, name |-> group.name, hidden |-> group.hidden,
     deleted |-> group.deleted]

\* x || null for a number: an absent number and 0 are both stored as null.
OrNullNumber(x) == IF ~x.some \/ x.val = 0 THEN Absent ELSE x

CachedCategory(category, group) ==
    [id |-> category.id, name |-> category.name,
     category_group_id |-> category.category_group_id,
     category_group_name |-> group.name,
     hidden |-> category.hidden, deleted |-> category.deleted,
     note |-> OrNull(category.note),
     budgeted |-> category.budgeted, activity |-> category.activity,
     balance |-> category.balance,
     goal_type |-> OrNull(category.goal_type),
     goal_percentage_complete |-> OrNullNumber(category.goal_percentage_complete)]

ZeroCategoryStats ==
    [total_groups |-> 0, total_categories |-> 0,
     new_groups |-> 0, updated_groups |-> 0, deleted_groups |-> 0,
     new_categories |-> 0, updated_categories |-> 0, deleted_categories |-> 0]

\* The group's own record (categories 27-52).
MergeGroup(acc, group) ==
    LET groupIdx == FindIndex(acc.category_groups, group.id) IN
    IF groupIdx > 0
    THEN [acc EXCEPT
            !.category_groups = [@ EXCEPT ![groupIdx] = CachedGroup(group)],
            !.stats =
               IF group.deleted /\ ~acc.category_groups[groupIdx].deleted
               THEN [@ EXCEPT !.deleted_groups = @ + 1]
               ELSE IF ~group.deleted
                    THEN [@ EXCEPT !.updated_groups = @ + 1]
                    ELSE @]
    ELSE [acc EXCEPT
            !.category_groups = Append(@, CachedGroup(group)),
            !.stats = [@ EXCEPT !.new_groups = @ + 1]]

\* One category of the group (categories 55-84).
MergeCategory(acc, category, group) ==
    LET catIdx == FindIndex(acc.categories, category.id)
        cachedCategory == CachedCategory(category, group)
    IN
    IF catIdx > 0
    THEN [acc EXCEPT
            !.categories = [@ EXCEPT ![catIdx] = cachedCategory],
            !.stats =
               IF category.deleted /\ ~acc.categories[catIdx].deleted
               THEN [@ EXCEPT !.deleted_categories = @ + 1]
               ELSE IF ~category.deleted
                    THEN [@ EXCEPT !.updated_categories = @ + 1]
                    ELSE @]
    ELSE [acc EXCEPT
            !.categories = Append(@, cachedCategory),
            !.stats = [@ EXCEPT !.new_categories = @ + 1]]

RECURSIVE MergeCategories(_, _, _)
MergeCategories(acc, list, group) ==
    IF list = <<>> THEN acc
    ELSE MergeCategories(MergeCategory(acc, Head(list), group), Tail(list), group)

RECURSIVE MergeGroups(_, _)
\* The loop over response.data.category_groups (categories 26-86).
MergeGroups(acc, list) ==
    IF list = <<>> THEN acc
    ELSE LET group == Head(list) IN
         MergeGroups(MergeCategories(MergeGroup(acc, group),
                                     group.categories, group),
                     Tail(list))

RECURSIVE MapCachedCategory(_, _)
MapCachedCategory(list, group) ==
    IF list = <<>> THEN <<>>
    ELSE <<CachedCategory(Head(list), group)>>
            \o MapCachedCategory(Tail(list), group)

RECURSIVE FreshGroups(_)
\* categoryGroups of a first sync (categories 94-100).
FreshGroups(list) ==
    IF list = <<>> THEN <<>>
    ELSE <<CachedGroup(Head(list))>> \o FreshGroups(Tail(list))

RECURSIVE FreshCategories(_)
\* categories of a first sync (categories 101-116).
FreshCategories(list) ==
    IF list = <<>> THEN <<>>
    ELSE MapCachedCategory(Head(list).categories, Head(list))
            \o FreshCategories(Tail(list))

\* The delta branch (categories 23-89).
CategoriesMerged(existing, response, now) ==
    LET m == MergeGroups([category_groups |-> existing.val.category_groups,
                          categories |-> existing.val.categories,
                          stats |-> ZeroCategoryStats],
                         response.category_groups)
    IN [cache |-> [existing.val EXCEPT
                     !.category_groups = m.category_groups,
                     !.categories = m.categories,
                     !.server_knowledge = response.server_knowledge,
                     !.last_synced = now],
        stats |-> m.stats]

\* The first-sync branch (categories 90-126).
CategoriesFresh(response, now) ==
    LET categoryGroups == FreshGroups(response.category_groups)
        categories == FreshCategories(response.category_groups)
    IN [cache |-> [server_knowledge |-> response.server_knowledge,
                   last_synced |-> now,
                   category_groups |-> categoryGroups,
                   categories |-> categories],
        stats |-> [ZeroCategoryStats EXCEPT
                     !.new_groups = CountNotDeleted(categoryGroups),
                     !.new_categories = CountNotDeleted(categories)]]

\* The cache and statistics syncCategories builds from what it loaded and
\* what the remote answered (categories 12-128).
CategoriesOutcome(existing, response, now) ==
    LET merged == IF existing.some
                  THEN CategoriesMerged(existing, response, now)
                  ELSE CategoriesFresh(response, now)
    IN [cache |-> merged.cache,
        stats |-> [merged.stats EXCEPT
                     !.total_groups = CountActive(merged.cache.category_groups),
                     !.total_categories = CountActive(merged.cache.categories)]]

----------------------------------------------------------------------------
\* Queries over a loaded cache: cache/payees.ts 105-141, cache/categories
\* 132-177.

\* String.prototype.toLowerCase, on the letters of the model.
ToLowerChar(c) == IF c = "A" THEN "a" ELSE IF c = "B" THEN "b" ELSE c
toLowerCase(str) == [i \in 1..Len(str) |-> ToLowerChar(str[i])]

\* String.prototype.includes: the empty string is in every string.
includes(str, search) ==
    \E i \in 0..(Len(str) - Len(search)) :
        SubSeq(str, i + 1, i + Len(search)) = search

\* Array.prototype.find by id: the first record with the id, or undefined.
FindById(list, id) ==
    LET idx == FindIndex(list, id) IN
    IF idx > 0 THEN Some(list[idx]) ELSE Absent

getPayeesFromCache(fs, budgetId) == readCache(fs, budgetId, PAYEES_CACHE_FILE)

getActivePayees(cache) ==
    SelectSeq(cache.payees, LAMBDA p : ~p.deleted)

\* searchPayeesInCache comparing the name as it is stored with the lowered
\* query.
searchPayeesInCacheNameAsStored(cache, query) ==
    LET searchLower == toLowerCase(query) IN
    SelectSeq(SelectSeq(cache.payees, LAMBDA p : ~p.deleted),
              LAMBDA p : includes(p.name, searchLower))

searchPayeesInCache(cache, query) ==
    LET searchLower == toLowerCase(query) IN
    SelectSeq(SelectSeq(cache.payees, LAMBDA p : ~p.deleted),
              LAMBDA p : includes(toLowerCase(p.name), searchLower))

\* findPayeeById looking among the active payees only.
findPayeeByIdAmongActive(cache, payeeId) ==
    FindById(SelectSeq(cache.payees, LAMBDA p : ~p.deleted), payeeId)

findPayeeById(cache, payeeId) == FindById(cache.payees, payeeId)

getCategoriesFromCache(fs, budgetId) ==
    readCache(fs, budgetId, CATEGORIES_CACHE_FILE)

getActiveCategories(cache) ==
    SelectSeq(cache.categories, LAMBDA c : ~c.deleted /\ ~c.hidden)

getActiveCategoryGroups(cache) ==
    SelectSeq(cache.category_groups, LAMBDA g : ~g.deleted /\ ~g.hidden)

searchCategoriesInCache(cache, query) ==
    LET searchLower == toLowerCase(query) IN
    SelectSeq(SelectSeq(cache.categories, LAMBDA c : ~c.deleted /\ ~c.hidden),
              LAMBDA c : \/ includes(toLowerCase(c.name), searchLower)
                         \/ includes(toLowerCase(c.category_group_name),
                                     searchLower))

findCategoryById(cache, categoryId) == FindById(cache.categories, categoryId)

\* getCategoriesByGroup: the active groups, each with the active categories
\* that name it.
\* getCategoriesByGroup over every cached group that is not deleted, hidden
\* ones included.
getCategoriesByGroupKeepsHidden(cache) ==
    LET groups == SelectSeq(cache.category_groups, LAMBDA g : ~g.deleted)
        activeCategories == getActiveCategories(cache)
    IN [i \in 1..Len(groups) |->
          [group |-> groups[i],
           categories |->
              SelectSeq(activeCategories,
                        LAMBDA c : c.category_group_id = groups[i].id)]]

getCategoriesByGroup(cache) ==
    LET activeGroups == getActiveCategoryGroups(cache)
        activeCategories == getActiveCategories(cache)
    IN [i \in 1..Len(activeGroups) |->
          [group |-> activeGroups[i],
           categories |->
              SelectSeq(activeCategories,
                        LAMBDA c : c.category_group_id = activeGroups[i].id)]]

----------------------------------------------------------------------------
\* The rate-limit tracker: a count of the requests of the current hour, kept in
\* memory and in rate-limit.json of the base cache directory.

RATE_LIMIT == 200
CACHE_FILENAME == "rate-limit.json"
GlobalFileNames == {CACHE_FILENAME}

\* The largest request count the model gives the tracker.
MaxRequests == 210
\* Date.now(): two instants are enough to tell a saved time from a later one.
Times == {"t1", "t2"}

\* readGlobalCache: undefined when the file does not exist or does not parse.
readGlobalCache(gf, filename) ==
    IF gf[filename].state = "json" THEN Some(gf[filename].value) ELSE Absent

\* writeGlobalCache: the file is replaced.
writeGlobalCache(gf, filename, data) ==
    [gf EXCEPT ![filename] = Stringify(data)]

\* The module's variables as loaded: let requestsUsed = 0, lastUpdated = null,
\* cacheLoaded = false; and no file yet.
TrackerInit ==
    /\ requestsUsed = 0
    /\ lastUpdated = Absent
    /\ cacheLoaded = FALSE
    /\ globalFiles = [f \in GlobalFileNames |-> NoFile]

\* The three variables in memory, as one value.
Memory ==
    [requestsUsed |-> requestsUsed, lastUpdated |-> lastUpdated,
     cacheLoaded |-> cacheLoaded]

\* ensureCacheLoaded: the first call takes the count and the time of the file,
\* when it can be read; later calls change nothing.
ensureCacheLoaded(mem, gf) ==
    IF mem.cacheLoaded THEN mem
    ELSE LET cached == readGlobalCache(gf, CACHE_FILENAME) IN
         IF cached.some
         THEN [requestsUsed |-> cached.val.requestsUsed,
               lastUpdated |-> Some(cached.val.lastUpdated),
               cacheLoaded |-> TRUE]
         ELSE [mem EXCEPT !.cacheLoaded = TRUE]

\* saveToCache: { requestsUsed, lastUpdated: lastUpdated || Date.now() }.
saveToCache(gf, mem, now) ==
    writeGlobalCache(gf, CACHE_FILENAME,
                     [requestsUsed |-> mem.requestsUsed,
                      lastUpdated |-> IF mem.lastUpdated.some
                                      THEN mem.lastUpdated.val ELSE now])

\* The odd counts n below 260 for which the double (n / 200) * 100 is just
\* below its half, so that Math.round rounds it down.
RoundsBelowHalf == {29, 57, 113, 115, 201, 203, 205, 207, 251, 253, 255}

\* Math.round((requestsUsed / RATE_LIMIT) * 100): to the nearest integer, a
\* half rounded up.
percentUsed(n) ==
    IF n \in RoundsBelowHalf
    THEN (n * 100) \div RATE_LIMIT
    ELSE (n * 100 + RATE_LIMIT \div 2) \div RATE_LIMIT

\* getRateLimitStatus, the fields that depend on the count.
getRateLimitStatus(mem) ==
    [requestsUsed |-> mem.requestsUsed,
     requestsRemaining |-> IF RATE_LIMIT - mem.requestsUsed > 0
                           THEN RATE_LIMIT - mem.requestsUsed ELSE 0,
     limit |-> RATE_LIMIT,
     percentUsed |-> percentUsed(mem.requestsUsed),
     lastUpdated |-> mem.lastUpdated]

\* getRateLimitWarningLevel, from the percentUsed of the status.
getRateLimitWarningLevel(status) ==
    IF status.percentUsed >= 100 THEN "exceeded"
    ELSE IF status.percentUsed >= 90 THEN "critical"
    ELSE IF status.percentUsed >= 75 THEN "warning"
    ELSE "ok"

----------------------------------------------------------------------------
\* State after construction: no cache file and nobody syncing. The remote
\* budget is empty, or already holds a payee, or already holds a category
\* group with a category, at server_knowledge 1.

NoResult == [kind |-> "none"]
EmptyMap == [x \in {} |-> 0]

SeedPayees ==
    "p1" :> [id |-> "p1", name |-> <<"a">>, deleted |-> FALSE,
             transfer_account_id |-> Null, changed |-> 1]
SeedGroups ==
    "g1" :> [id |-> "g1", name |-> <<"a">>, hidden |-> FALSE,
             deleted |-> FALSE, changed |-> 1]
SeedCategories ==
    "c1" :> [id |-> "c1", name |-> <<"a">>, category_group_id |-> "g1",
             hidden |-> FALSE, deleted |-> FALSE, note |-> Null,
             budgeted |-> 0, activity |-> 0, balance |-> 0,
             goal_type |-> Null, goal_percentage_complete |-> Absent,
             changed |-> 1]

Init ==
    /\ TrackerInit
    /\ files = [b \in Budgets |-> [f \in FileNames |-> NoFile]]
    /\ remoteKnowledge = [b \in Budgets |-> 1]
    /\ \E seed \in [Budgets -> {"empty", "payees", "categories"}] :
          /\ remotePayees =
                [b \in Budgets |-> IF seed[b] = "payees" THEN SeedPayees ELSE EmptyMap]
          /\ remoteGroups =
                [b \in Budgets |-> IF seed[b] = "categories" THEN SeedGroups ELSE EmptyMap]
          /\ remoteCategories =
                [b \in Budgets |-> IF seed[b] = "categories" THEN SeedCategories ELSE EmptyMap]
    /\ pc = [t \in Callers |-> "idle"]
    /\ result = [t \in Callers |-> NoResult]
    /\ lastKnowledge = [b \in Budgets |-> [f \in FileNames |-> Absent]]

\* One logical operation at a time: an operation starts when every caller is
\* idle, and a result is handed to its caller before anything else happens.
AllIdle == \A t \in Callers : pc[t] = "idle"

----------------------------------------------------------------------------
\* The remote's own life: every change advances the budget's server_knowledge
\* and stamps the changed record with it.

\* One edit of the remote changes one field of one record.
OneEdit(new, old) ==
    Cardinality({i \in 1..Len(new) : new[i] # old[i]}) = 1

\* The model follows the edits of one collection at a time: payees are edited
\* while the budget has no category groups, and the other way round.
PayeesLive(b) == DOMAIN remoteGroups[b] = {}
CategoriesLive(b) == DOMAIN remotePayees[b] = {}

RemoteCreatePayee(b, id) ==
    /\ AllIdle
    /\ remoteKnowledge[b] < MaxKnowledge
    /\ PayeesLive(b)
    /\ id \notin DOMAIN remotePayees[b]
    /\ LET k == remoteKnowledge[b] + 1
           rec == [id |-> id, name |-> FirstName(id), deleted |-> FALSE,
                   transfer_account_id |-> TransferOf[id], changed |-> k]
       IN /\ remoteKnowledge' = [remoteKnowledge EXCEPT ![b] = k]
          /\ remotePayees' = [remotePayees EXCEPT ![b] = (id :> rec) @@ @]
    /\ UNCHANGED <<files, remoteGroups, remoteCategories, pc, result, lastKnowledge,
                   rateLimitVars>>

\* A rename, a delete or an undelete of an existing payee.
RemoteUpdatePayee(b, id, name, deleted) ==
    /\ AllIdle
    /\ remoteKnowledge[b] < MaxKnowledge
    /\ id \in DOMAIN remotePayees[b]
    /\ OneEdit(<<name, deleted>>,
               <<remotePayees[b][id].name, remotePayees[b][id].deleted>>)
    /\ LET k == remoteKnowledge[b] + 1 IN
          /\ remoteKnowledge' = [remoteKnowledge EXCEPT ![b] = k]
          /\ remotePayees' = [remotePayees EXCEPT ![b][id] =
                                [@ EXCEPT !.name = name, !.deleted = deleted,
                                          !.changed = k]]
    /\ UNCHANGED <<files, remoteGroups, remoteCategories, pc, result, lastKnowledge,
                   rateLimitVars>>

RemoteCreateGroup(b, id) ==
    /\ AllIdle
    /\ remoteKnowledge[b] < MaxKnowledge
    /\ CategoriesLive(b)
    /\ id \notin DOMAIN remoteGroups[b]
    /\ LET k == remoteKnowledge[b] + 1
           rec == [id |-> id, name |-> FirstName(id), hidden |-> FALSE,
                   deleted |-> FALSE, changed |-> k]
       IN /\ remoteKnowledge' = [remoteKnowledge EXCEPT ![b] = k]
          /\ remoteGroups' = [remoteGroups EXCEPT ![b] = (id :> rec) @@ @]
    /\ UNCHANGED <<files, remotePayees, remoteCategories, pc, result, lastKnowledge,
                   rateLimitVars>>

\* A rename, a hide or unhide, a delete or an undelete of an existing group.
RemoteUpdateGroup(b, id, name, hidden, deleted) ==
    /\ AllIdle
    /\ remoteKnowledge[b] < MaxKnowledge
    /\ id \in DOMAIN remoteGroups[b]
    /\ OneEdit(<<name, hidden, deleted>>,
               <<remoteGroups[b][id].name, remoteGroups[b][id].hidden,
                 remoteGroups[b][id].deleted>>)
    /\ LET k == remoteKnowledge[b] + 1 IN
          /\ remoteKnowledge' = [remoteKnowledge EXCEPT ![b] = k]
          /\ remoteGroups' = [remoteGroups EXCEPT ![b][id] =
                                [@ EXCEPT !.name = name, !.hidden = hidden,
                                          !.deleted = deleted, !.changed = k]]
    /\ UNCHANGED <<files, remotePayees, remoteCategories, pc, result, lastKnowledge,
                   rateLimitVars>>

\* A new category in an existing group.
RemoteCreateCategory(b, id, groupId) ==
    /\ AllIdle
    /\ remoteKnowledge[b] < MaxKnowledge
    /\ id \notin DOMAIN remoteCategories[b]
    /\ groupId \in DOMAIN remoteGroups[b]
    /\ LET k == remoteKnowledge[b] + 1
           rec == [id |-> id, name |-> FirstName(id), category_group_id |-> groupId,
                   hidden |-> FALSE, deleted |-> FALSE, note |-> Null,
                   budgeted |-> 0, activity |-> 0, balance |-> 0,
                   goal_type |-> Null, goal_percentage_complete |-> Absent,
                   changed |-> k]
       IN /\ remoteKnowledge' = [remoteKnowledge EXCEPT ![b] = k]
          /\ remoteCategories' = [remoteCategories EXCEPT ![b] = (id :> rec) @@ @]
    /\ UNCHANGED <<files, remotePayees, remoteGroups, pc, result, lastKnowledge,
                   rateLimitVars>>

\* A rename, a hide or unhide, a delete or an undelete of an existing category.
RemoteUpdateCategory(b, id, name, hidden, deleted) ==
    /\ AllIdle
    /\ remoteKnowledge[b] < MaxKnowledge
    /\ id \in DOMAIN remoteCategories[b]
    /\ OneEdit(<<name, hidden, deleted>>,
               <<remoteCategories[b][id].name, remoteCategories[b][id].hidden,
                 remoteCategories[b][id].deleted>>)
    /\ LET k == remoteKnowledge[b] + 1 IN
          /\ remoteKnowledge' = [remoteKnowledge EXCEPT ![b] = k]
          /\ remoteCategories' = [remoteCategories EXCEPT ![b][id] =
                                   [@ EXCEPT !.name = name, !.hidden = hidden,
                                             !.deleted = deleted, !.changed = k]]
    /\ UNCHANGED <<files, remotePayees, remoteGroups, pc, result, lastKnowledge,
                   rateLimitVars>>

----------------------------------------------------------------------------
\* The syncs, each run from its load to its return with nothing in between.

\* CursorOf with the cursor never passed: every sync a full fetch.
CursorNeverPassed(existing) == Absent

\* existing?.server_knowledge
CursorOf(existing) ==
    IF existing.some THEN Some(existing.val.server_knowledge) ELSE Absent

\* new Date().toISOString(): timestamps are opaque strings. A first sync
\* writes the first of them, a merge into an existing cache the second, so a
\* merge may or may not change the stamp it found.
Clock(existing) == IF existing.some THEN {"T2"} ELSE {"T1"}

\* payees.ts 43-102, given what line 40 loaded: the remote answers, the answer
\* is merged, saved and returned.
PayeesResponse(t, b, existing, now) ==
    LET response == getPayees(remotePayees[b], remoteKnowledge[b],
                              CursorOf(existing))
        out == PayeesOutcome(existing, response, now)
    IN /\ files' = writeCache(files, b, PAYEES_CACHE_FILE, out.cache)
       /\ lastKnowledge' = [lastKnowledge EXCEPT ![b][PAYEES_CACHE_FILE] =
                              Some(response.server_knowledge)]
       /\ result' = [result EXCEPT ![t] =
                       [kind |-> "payees", budgetId |-> b,
                        passed |-> CursorOf(existing),
                        existing |-> existing,
                        response |-> response,
                        cache |-> out.cache, stats |-> out.stats,
                        fileBefore |-> files[b][PAYEES_CACHE_FILE],
                        before |-> lastKnowledge[b][PAYEES_CACHE_FILE]]]
       /\ pc' = [pc EXCEPT ![t] = "returned"]

\* syncPayees(budgetId, api)
SyncPayees(t, b) ==
    /\ AllIdle
    /\ LET existing == readCache(files, b, PAYEES_CACHE_FILE) IN
          \E now \in Clock(existing) : PayeesResponse(t, b, existing, now)
    /\ UNCHANGED <<remoteKnowledge, remotePayees, remoteGroups, remoteCategories,
                   rateLimitVars>>

\* categories 11-130, given what line 9 loaded.
CategoriesResponse(t, b, existing, now) ==
    LET response == getCategories(remoteGroups[b], remoteCategories[b],
                                  remoteKnowledge[b], CursorOf(existing))
        out == CategoriesOutcome(existing, response, now)
    IN /\ files' = writeCache(files, b, CATEGORIES_CACHE_FILE, out.cache)
       /\ lastKnowledge' = [lastKnowledge EXCEPT ![b][CATEGORIES_CACHE_FILE] =
                              Some(response.server_knowledge)]
       /\ result' = [result EXCEPT ![t] =
                       [kind |-> "categories", budgetId |-> b,
                        passed |-> CursorOf(existing),
                        existing |-> existing,
                        response |-> response,
                        cache |-> out.cache, stats |-> out.stats,
                        fileBefore |-> files[b][CATEGORIES_CACHE_FILE],
                        before |-> lastKnowledge[b][CATEGORIES_CACHE_FILE]]]
       /\ pc' = [pc EXCEPT ![t] = "returned"]

\* syncCategories(budgetId, api)
SyncCategories(t, b) ==
    /\ AllIdle
    /\ LET existing == readCache(files, b, CATEGORIES_CACHE_FILE) IN
          \E now \in Clock(existing) : CategoriesResponse(t, b, existing, now)
    /\ UNCHANGED <<remoteKnowledge, remotePayees, remoteGroups, remoteCategories,
                   rateLimitVars>>

\* What the awaited remote call rejects with (a network, auth or rate-limit
\* error; the syncs treat every rejection alike).
Errors == {"401 Unauthorized"}

\* PayeesRejection with the stamp of the loaded cache refreshed and saved
\* before the answer is awaited.
PayeesRejectionSavesBeforeAwait(t, b, existing, error) ==
    /\ files' = IF existing.some
                THEN writeCache(files, b, PAYEES_CACHE_FILE,
                                [existing.val EXCEPT !.last_synced = "T2"])
                ELSE writeCache(files, b, PAYEES_CACHE_FILE,
                                [server_knowledge |-> 0, last_synced |-> "T1",
                                 payees |-> <<>>])
    /\ result' = [result EXCEPT ![t] =
                    [kind |-> "payees", budgetId |-> b,
                     passed |-> CursorOf(existing), existing |-> existing,
                     error |-> error, thrown |-> error,
                     fileBefore |-> files[b][PAYEES_CACHE_FILE]]]
    /\ pc' = [pc EXCEPT ![t] = "threw"]
    /\ UNCHANGED lastKnowledge

\* payees.ts 43-46 when the awaited getPayees rejects with `error`: syncPayees
\* has no try/catch, so the rejection is the caller's and no line after the
\* await runs (no merge, no writeCache).
PayeesRejection(t, b, existing, error) ==
    /\ result' = [result EXCEPT ![t] =
                    [kind |-> "payees", budgetId |-> b,
                     passed |-> CursorOf(existing), existing |-> existing,
                     error |-> error, thrown |-> error,
                     fileBefore |-> files[b][PAYEES_CACHE_FILE]]]
    /\ pc' = [pc EXCEPT ![t] = "threw"]
    /\ UNCHANGED <<files, lastKnowledge>>

\* syncPayees(budgetId, api) with the remote call failing.
SyncPayeesFails(t, b, error) ==
    /\ AllIdle
    /\ PayeesRejection(t, b, readCache(files, b, PAYEES_CACHE_FILE), error)
    /\ UNCHANGED <<remoteKnowledge, remotePayees, remoteGroups, remoteCategories,
                   rateLimitVars>>

\* categories 11-14 when the awaited getCategories rejects with `error`.
CategoriesRejection(t, b, existing, error) ==
    /\ result' = [result EXCEPT ![t] =
                    [kind |-> "categories", budgetId |-> b,
                     passed |-> CursorOf(existing), existing |-> existing,
                     error |-> error, thrown |-> error,
                     fileBefore |-> files[b][CATEGORIES_CACHE_FILE]]]
    /\ pc' = [pc EXCEPT ![t] = "threw"]
    /\ UNCHANGED <<files, lastKnowledge>>

\* syncCategories(budgetId, api) with the remote call failing.
SyncCategoriesFails(t, b, error) ==
    /\ AllIdle
    /\ CategoriesRejection(t, b, readCache(files, b, CATEGORIES_CACHE_FILE), error)
    /\ UNCHANGED <<remoteKnowledge, remotePayees, remoteGroups, remoteCategories,
                   rateLimitVars>>

\* The caller of a sync that threw has the error and is free again.
Catch(t) ==
    /\ pc[t] = "threw"
    /\ pc' = [pc EXCEPT ![t] = "idle"]
    /\ result' = [result EXCEPT ![t] = NoResult]
    /\ UNCHANGED <<files, remoteKnowledge, remotePayees, remoteGroups,
                   remoteCategories, lastKnowledge,
                   rateLimitVars>>

\* The caller takes the result and is free for its next operation.
Return(t) ==
    /\ pc[t] = "returned"
    /\ pc' = [pc EXCEPT ![t] = "idle"]
    /\ result' = [result EXCEPT ![t] = NoResult]
    /\ UNCHANGED <<files, remoteKnowledge, remotePayees, remoteGroups,
                   remoteCategories, lastKnowledge,
                   rateLimitVars>>

----------------------------------------------------------------------------
\* The store used from outside a sync, and a file damaged on disk.

DeleteCache(b, f) ==
    /\ AllIdle
    /\ files[b][f] # NoFile
    /\ files' = deleteCache(files, b, f)
    /\ UNCHANGED <<remoteKnowledge, remotePayees, remoteGroups,
                   remoteCategories, pc, result, lastKnowledge,
                   rateLimitVars>>

ClearBudgetCache(b) ==
    /\ AllIdle
    /\ \E f \in FileNames : files[b][f] # NoFile
    /\ files' = clearBudgetCache(files, b)
    /\ UNCHANGED <<remoteKnowledge, remotePayees, remoteGroups,
                   remoteCategories, pc, result, lastKnowledge,
                   rateLimitVars>>

\* The file's text no longer parses (a torn write, an edit by hand).
CorruptFile(b, f) ==
    /\ AllIdle
    /\ files[b][f].state = "json"
    /\ files' = [files EXCEPT ![b][f] = Corrupt]
    /\ UNCHANGED <<remoteKnowledge, remotePayees, remoteGroups,
                   remoteCategories, pc, result, lastKnowledge,
                   rateLimitVars>>

----------------------------------------------------------------------------
\* The store called directly, as the tests of the cache module do: two
\* budgets, each with the two cache files and a record of the caller's own.

StoreBudgets == {"B1", "B2"}
TEST_FILE == "test.json"
StoreFileNames == FileNames \cup {TEST_FILE}
SaveValues == {[data |-> "test"], [data |-> "other"]}

\* Both budgets hold a payee and a category group with a category. B2 has
\* been synced and holds a record of the caller's; B1 has no file yet. The
\* calls that follow are for B1.
StoreInit ==
    /\ TrackerInit
    /\ files =
          [b \in StoreBudgets |->
             IF b = "B1"
             THEN [f \in StoreFileNames |-> NoFile]
             ELSE [f \in StoreFileNames |->
                     IF f = PAYEES_CACHE_FILE
                     THEN Stringify(PayeesOutcome(
                             Absent, getPayees(SeedPayees, 1, Absent), "T1").cache)
                     ELSE IF f = CATEGORIES_CACHE_FILE
                     THEN Stringify(CategoriesOutcome(
                             Absent,
                             getCategories(SeedGroups, SeedCategories, 1, Absent),
                             "T1").cache)
                     ELSE Stringify([data |-> "test"])]]
    /\ remoteKnowledge = [b \in StoreBudgets |-> 1]
    /\ remotePayees = [b \in StoreBudgets |-> SeedPayees]
    /\ remoteGroups = [b \in StoreBudgets |-> SeedGroups]
    /\ remoteCategories = [b \in StoreBudgets |-> SeedCategories]
    /\ pc = [t \in Callers |-> "idle"]
    /\ result = [t \in Callers |-> NoResult]
    /\ lastKnowledge =
          [b \in StoreBudgets |->
             [f \in StoreFileNames |->
                IF b = "B2" /\ f \in FileNames THEN Some(1) ELSE Absent]]

\* What a store call hands back to its caller, or that it threw.
StoreResult(kind, b, f, out) ==
    [kind |-> kind, budgetId |-> b, filename |-> f, out |-> out,
     fsBefore |-> files]

\* writeCache(budgetId, filename, data)
CallWriteCache(t, b, f, data, fault) ==
    /\ AllIdle
    /\ LET out == writeCacheOutcome(files, b, f, data, fault) IN
          /\ files' = out.fs
          /\ result' = [result EXCEPT ![t] =
                          StoreResult("writeCache", b, f,
                                      [data |-> data, fault |-> fault])]
          /\ pc' = [pc EXCEPT ![t] = IF out.threw THEN "threw" ELSE "returned"]
    /\ UNCHANGED <<remoteKnowledge, remotePayees, remoteGroups,
                   remoteCategories, lastKnowledge,
                   rateLimitVars>>

\* readCache(budgetId, filename)
CallReadCache(t, b, f) ==
    /\ AllIdle
    /\ result' = [result EXCEPT ![t] =
                    StoreResult("readCache", b, f,
                                [returned |-> readCache(files, b, f)])]
    /\ pc' = [pc EXCEPT ![t] = "returned"]
    /\ UNCHANGED <<files, remoteKnowledge, remotePayees, remoteGroups,
                   remoteCategories, lastKnowledge,
                   rateLimitVars>>

\* deleteCache(budgetId, filename)
CallDeleteCache(t, b, f, fault) ==
    /\ AllIdle
    /\ LET out == deleteCacheOutcome(files, b, f, fault) IN
          /\ files' = out.fs
          /\ result' = [result EXCEPT ![t] =
                          StoreResult("deleteCache", b, f,
                                      [returned |-> out.returned, fault |-> fault])]
          /\ pc' = [pc EXCEPT ![t] = IF out.threw THEN "threw" ELSE "returned"]
    /\ UNCHANGED <<remoteKnowledge, remotePayees, remoteGroups,
                   remoteCategories, lastKnowledge,
                   rateLimitVars>>

\* clearBudgetCache(budgetId)
CallClearBudgetCache(t, b, fault, removed) ==
    /\ AllIdle
    /\ fault = "none" => removed = {}
    /\ LET out == clearBudgetCacheOutcome(files, b, fault, removed) IN
          /\ files' = out.fs
          /\ result' = [result EXCEPT ![t] =
                          StoreResult("clearBudgetCache", b, Null,
                                      [fault |-> fault])]
          /\ pc' = [pc EXCEPT ![t] = IF out.threw THEN "threw" ELSE "returned"]
    /\ UNCHANGED <<remoteKnowledge, remotePayees, remoteGroups,
                   remoteCategories, lastKnowledge,
                   rateLimitVars>>

\* syncPayees whose writeCache throws: the error leaves syncPayees, nothing is
\* returned, and the file is what the failed write left of it.
SyncPayeesSaveFails(t, b, fault) ==
    /\ AllIdle
    /\ fault # "none"
    /\ LET existing == readCache(files, b, PAYEES_CACHE_FILE)
           response == getPayees(remotePayees[b], remoteKnowledge[b],
                                 CursorOf(existing))
       IN \E now \in Clock(existing) :
            LET out == PayeesOutcome(existing, response, now)
                saved == writeCacheOutcome(files, b, PAYEES_CACHE_FILE,
                                           out.cache, fault)
            IN /\ saved.threw
               /\ files' = saved.fs
               /\ result' = [result EXCEPT ![t] =
                               [kind |-> "payees", budgetId |-> b,
                                passed |-> CursorOf(existing),
                                existing |-> existing, response |-> response,
                                fault |-> fault,
                                fileBefore |-> files[b][PAYEES_CACHE_FILE]]]
    /\ pc' = [pc EXCEPT ![t] = "threw"]
    /\ UNCHANGED <<remoteKnowledge, remotePayees, remoteGroups, remoteCategories,
                   lastKnowledge, rateLimitVars>>

StoreNext ==
    \/ \E t \in Callers, b \in Budgets, v \in SaveValues, x \in WriteFaults :
          CallWriteCache(t, b, TEST_FILE, v, x)
    \/ \E t \in Callers, b \in Budgets, f \in StoreFileNames :
          CallReadCache(t, b, f)
    \/ \E t \in Callers, b \in Budgets, f \in StoreFileNames, x \in RemoveFaults :
          CallDeleteCache(t, b, f, x)
    \/ \E t \in Callers, b \in Budgets, x \in RemoveFaults,
          removed \in SUBSET StoreFileNames :
          CallClearBudgetCache(t, b, x, removed)
    \/ \E t \in Callers, b \in Budgets : SyncPayees(t, b)
    \/ \E t \in Callers, b \in Budgets : SyncCategories(t, b)
    \/ \E t \in Callers, b \in Budgets, x \in WriteFaults :
          SyncPayeesSaveFails(t, b, x)
    \/ \E b \in Budgets, id \in PayeeIds, n \in Names, d \in BOOLEAN :
          RemoteUpdatePayee(b, id, n, d)
    \/ \E t \in Callers : Catch(t)
    \/ \E t \in Callers : Return(t)

StoreSpec == StoreInit /\ [][StoreNext]_vars

----------------------------------------------------------------------------
\* The rate-limit tracker at work: the middleware reports the header of each
\* response or counts the response itself, the status tool asks for the
\* warning level, and the server process is started again now and then.

\* updateFromHeader(headerValue)
UpdateFromHeader(headerValue, now) ==
    /\ AllIdle
    /\ LET mem == [ensureCacheLoaded(Memory, globalFiles) EXCEPT
                      !.requestsUsed = headerValue, !.lastUpdated = Some(now)]
       IN /\ requestsUsed' = mem.requestsUsed
          /\ lastUpdated' = mem.lastUpdated
          /\ cacheLoaded' = mem.cacheLoaded
          /\ globalFiles' = saveToCache(globalFiles, mem, now)
    /\ UNCHANGED <<files, remoteKnowledge, remotePayees, remoteGroups,
                   remoteCategories, pc, result, lastKnowledge>>

\* incrementRequestCount()
IncrementRequestCount(now) ==
    /\ AllIdle
    /\ LET loaded == ensureCacheLoaded(Memory, globalFiles)
           mem == [loaded EXCEPT !.requestsUsed = @ + 1,
                                 !.lastUpdated = Some(now)]
       IN /\ loaded.requestsUsed < MaxRequests
          /\ requestsUsed' = mem.requestsUsed
          /\ lastUpdated' = mem.lastUpdated
          /\ cacheLoaded' = mem.cacheLoaded
          /\ globalFiles' = saveToCache(globalFiles, mem, now)
    /\ UNCHANGED <<files, remoteKnowledge, remotePayees, remoteGroups,
                   remoteCategories, pc, result, lastKnowledge>>

\* getRateLimitWarningLevel(), called by t.
GetRateLimitWarningLevel(t) ==
    /\ AllIdle
    /\ LET mem == ensureCacheLoaded(Memory, globalFiles)
           status == getRateLimitStatus(mem)
       IN /\ requestsUsed' = mem.requestsUsed
          /\ lastUpdated' = mem.lastUpdated
          /\ cacheLoaded' = mem.cacheLoaded
          /\ result' = [result EXCEPT ![t] =
                [kind |-> "getRateLimitWarningLevel", status |-> status,
                 level |-> getRateLimitWarningLevel(status)]]
    /\ pc' = [pc EXCEPT ![t] = "returned"]
    /\ UNCHANGED <<files, remoteKnowledge, remotePayees, remoteGroups,
                   remoteCategories, lastKnowledge, globalFiles>>

\* resetTracker()
ResetTracker ==
    /\ AllIdle
    /\ requestsUsed' = 0
    /\ lastUpdated' = Absent
    /\ cacheLoaded' = TRUE
    /\ UNCHANGED <<files, remoteKnowledge, remotePayees, remoteGroups,
                   remoteCategories, pc, result, lastKnowledge, globalFiles>>

\* The server process ends and is started again: the module's variables are
\* initialised anew, the file stays.
Restart ==
    /\ AllIdle
    /\ cacheLoaded
    /\ requestsUsed' = 0
    /\ lastUpdated' = Absent
    /\ cacheLoaded' = FALSE
    /\ UNCHANGED <<files, remoteKnowledge, remotePayees, remoteGroups,
                   remoteCategories, pc, result, lastKnowledge, globalFiles>>

\* rate-limit.json is damaged on disk.
CorruptGlobalFile(f) ==
    /\ AllIdle
    /\ globalFiles[f].state = "json"
    /\ globalFiles' = [globalFiles EXCEPT ![f] = Corrupt]
    /\ UNCHANGED <<files, remoteKnowledge, remotePayees, remoteGroups,
                   remoteCategories, pc, result, lastKnowledge,
                   requestsUsed, lastUpdated, cacheLoaded>>

RateLimitNext ==
    \/ \E headerValue \in 0..MaxRequests, now \in Times :
          UpdateFromHeader(headerValue, now)
    \/ \E now \in Times : IncrementRequestCount(now)
    \/ \E t \in Callers : GetRateLimitWarningLevel(t)
    \/ ResetTracker
    \/ Restart
    \/ \E f \in GlobalFileNames : CorruptGlobalFile(f)
    \/ \E t \in Callers : Return(t)

RateLimitSpec == Init /\ [][RateLimitNext]_vars

----------------------------------------------------------------------------
\* The tools and functions that read the cache: list_categories,
\* search_categories and get_category, which sync first when there is no
\* cache, and the searches and lookups over a loaded payee cache.

Queries == {<<>>, <<"a">>, <<"A">>, <<"b">>, <<"B">>, <<"a", "b">>,
            <<"A", "B">>, <<"b", "a">>}
LookupIds(ids) == ids \cup {"nonexistent"}

\* A budget with two payees, two category groups and a category in each
\* group, with one more change of the remote to come; no cache file yet.
ToolInit ==
    /\ TrackerInit
    /\ files = [b \in Budgets |-> [f \in FileNames |-> NoFile]]
    /\ remoteKnowledge = [b \in Budgets |-> MaxKnowledge - 1]
    /\ remotePayees =
          [b \in Budgets |->
             [id \in PayeeIds |->
                [id |-> id, name |-> FirstName(id), deleted |-> FALSE,
                 transfer_account_id |-> TransferOf[id], changed |-> 1]]]
    /\ remoteGroups =
          [b \in Budgets |->
             [id \in GroupIds |->
                [id |-> id, name |-> FirstName(id), hidden |-> FALSE,
                 deleted |-> FALSE, changed |-> 1]]]
    /\ remoteCategories =
          [b \in Budgets |->
             [id \in CategoryIds |->
                [id |-> id, name |-> FirstName(id),
                 category_group_id |-> IF id = "c1" THEN "g2" ELSE "g1",
                 hidden |-> FALSE, deleted |-> FALSE, note |-> Null,
                 budgeted |-> 0, activity |-> 0, balance |-> 0,
                 goal_type |-> Null, goal_percentage_complete |-> Absent,
                 changed |-> 1]]]
    /\ pc = [t \in Callers |-> "idle"]
    /\ result = [t \in Callers |-> NoResult]
    /\ lastKnowledge = [b \in Budgets |-> [f \in FileNames |-> Absent]]

\* The tools sync even when they found a cache.
AutoSyncAlways(cache) == TRUE

\* if (!cache)
AutoSyncNeeded(cache) == ~cache.some

\* milliunits / 1000, kept as the fraction it is.
Dollars(milliunits) == [num |-> milliunits, den |-> 1000]

\* A category as the tools print it.
ShownCategory(c) ==
    [id |-> c.id, name |-> c.name, group_name |-> c.category_group_name,
     budgeted |-> Dollars(c.budgeted), activity |-> Dollars(c.activity),
     balance |-> Dollars(c.balance), goal_type |-> c.goal_type,
     goal_percentage_complete |-> c.goal_percentage_complete]

\* The JSON a category tool answers with, from the cache it ended up with.
ToolOutput(tool, cache, arg, autoSynced) ==
    IF tool = "list_categories"
    THEN LET grouped == getCategoriesByGroup(cache) IN
         [category_groups |->
             [i \in 1..Len(grouped) |->
                [id |-> grouped[i].group.id, name |-> grouped[i].group.name,
                 categories |->
                    [j \in 1..Len(grouped[i].categories) |->
                       ShownCategory(grouped[i].categories[j])]]],
          group_count |-> Len(grouped),
          auto_synced |-> autoSynced,
          last_synced |-> cache.last_synced]
    ELSE IF tool = "search_categories"
    THEN LET matches == searchCategoriesInCache(cache, arg) IN
         [query |-> arg, match_count |-> Len(matches),
          auto_synced |-> autoSynced, matches |-> matches,
          categories |-> [i \in 1..Len(matches) |-> ShownCategory(matches[i])]]
    ELSE LET category == findCategoryById(cache, arg) IN
         IF ~category.some
         THEN [error |-> "Category not found", category_id |-> arg,
               auto_synced |-> autoSynced, found |-> category]
         ELSE [auto_synced |-> autoSynced, found |-> category,
               category |-> ShownCategory(category.val),
               hidden |-> category.val.hidden, deleted |-> category.val.deleted]

\* execute of the three category tools: the cache is loaded; when there is
\* none, syncCategories runs and its cache is used; the answer is built from
\* the cache. `calls` are the cursors of the remote calls made on the way.
CategoryTool(t, b, tool, arg) ==
    /\ AllIdle
    /\ LET cached == getCategoriesFromCache(files, b) IN
          IF AutoSyncNeeded(cached)
          THEN \E now \in Clock(cached) :
                 LET response == getCategories(remoteGroups[b], remoteCategories[b],
                                               remoteKnowledge[b], CursorOf(cached))
                     out == CategoriesOutcome(cached, response, now)
                 IN /\ files' = writeCache(files, b, CATEGORIES_CACHE_FILE, out.cache)
                    /\ lastKnowledge' =
                          [lastKnowledge EXCEPT ![b][CATEGORIES_CACHE_FILE] =
                             Some(response.server_knowledge)]
                    /\ result' = [result EXCEPT ![t] =
                          [kind |-> tool, budgetId |-> b, arg |-> arg,
                           calls |-> <<CursorOf(cached)>>,
                           cache |-> out.cache, fsBefore |-> files,
                           output |-> ToolOutput(tool, out.cache, arg, TRUE)]]
          ELSE /\ result' = [result EXCEPT ![t] =
                     [kind |-> tool, budgetId |-> b, arg |-> arg,
                      calls |-> <<>>,
                      cache |-> cached.val, fsBefore |-> files,
                      output |-> ToolOutput(tool, cached.val, arg, FALSE)]]
               /\ UNCHANGED <<files, lastKnowledge>>
    /\ pc' = [pc EXCEPT ![t] = "returned"]
    /\ UNCHANGED <<remoteKnowledge, remotePayees, remoteGroups, remoteCategories,
                   rateLimitVars>>

ListCategories(t, b) == CategoryTool(t, b, "list_categories", Null)
SearchCategories(t, b, query) == CategoryTool(t, b, "search_categories", query)
GetCategory(t, b, categoryId) == CategoryTool(t, b, "get_category", categoryId)

\* searchPayeesInCache(cache, query) on the cache getPayeesFromCache loaded.
\* The search run as the search_payees tool runs it: after a sync of its own.
SearchPayeesSyncsFirst(t, b, query) ==
    /\ AllIdle
    /\ LET cached == getPayeesFromCache(files, b)
           response == getPayees(remotePayees[b], remoteKnowledge[b],
                                 CursorOf(cached))
           synced == PayeesOutcome(cached, response, "T2").cache
       IN /\ cached.some
          /\ files' = writeCache(files, b, PAYEES_CACHE_FILE, synced)
          /\ lastKnowledge' = [lastKnowledge EXCEPT ![b][PAYEES_CACHE_FILE] =
                                 Some(response.server_knowledge)]
          /\ result' = [result EXCEPT ![t] =
                [kind |-> "searchPayeesInCache", budgetId |-> b, arg |-> query,
                 cache |-> synced, fsBefore |-> files,
                 calls |-> <<CursorOf(cached)>>,
                 output |-> searchPayeesInCache(synced, query)]]
    /\ pc' = [pc EXCEPT ![t] = "returned"]
    /\ UNCHANGED <<remoteKnowledge, remotePayees, remoteGroups,
                   remoteCategories, rateLimitVars>>

SearchPayees(t, b, query) ==
    /\ AllIdle
    /\ LET cached == getPayeesFromCache(files, b) IN
          /\ cached.some
          /\ result' = [result EXCEPT ![t] =
                [kind |-> "searchPayeesInCache", budgetId |-> b, arg |-> query,
                 cache |-> cached.val, fsBefore |-> files, calls |-> <<>>,
                 output |-> searchPayeesInCache(cached.val, query)]]
    /\ pc' = [pc EXCEPT ![t] = "returned"]
    /\ UNCHANGED <<files, remoteKnowledge, remotePayees, remoteGroups,
                   remoteCategories, lastKnowledge,
                   rateLimitVars>>

\* findPayeeById(cache, payeeId) and getActivePayees(cache) on the cache
\* getPayeesFromCache loaded.
FindPayee(t, b, payeeId) ==
    /\ AllIdle
    /\ LET cached == getPayeesFromCache(files, b) IN
          /\ cached.some
          /\ result' = [result EXCEPT ![t] =
                [kind |-> "findPayeeById", budgetId |-> b, arg |-> payeeId,
                 cache |-> cached.val, fsBefore |-> files, calls |-> <<>>,
                 output |-> findPayeeById(cached.val, payeeId),
                 active |-> getActivePayees(cached.val)]]
    /\ pc' = [pc EXCEPT ![t] = "returned"]
    /\ UNCHANGED <<files, remoteKnowledge, remotePayees, remoteGroups,
                   remoteCategories, lastKnowledge,
                   rateLimitVars>>

\* getCategoriesByGroup(cache), getActiveCategories(cache) and
\* getActiveCategoryGroups(cache) on the cache getCategoriesFromCache loaded.
QueryCategories(t, b) ==
    /\ AllIdle
    /\ LET cached == getCategoriesFromCache(files, b) IN
          /\ cached.some
          /\ result' = [result EXCEPT ![t] =
                [kind |-> "getCategoriesByGroup", budgetId |-> b,
                 cache |-> cached.val, fsBefore |-> files, calls |-> <<>>,
                 output |-> getCategoriesByGroup(cached.val),
                 active |-> getActiveCategories(cached.val),
                 activeGroups |-> getActiveCategoryGroups(cached.val)]]
    /\ pc' = [pc EXCEPT ![t] = "returned"]
    /\ UNCHANGED <<files, remoteKnowledge, remotePayees, remoteGroups,
                   remoteCategories, lastKnowledge,
                   rateLimitVars>>

ToolNext ==
    \/ \E b \in Budgets, id \in PayeeIds, n \in Names, d \in BOOLEAN :
          RemoteUpdatePayee(b, id, n, d)
    \/ \E b \in Budgets, id \in GroupIds, n \in Names, h \in BOOLEAN, d \in BOOLEAN :
          RemoteUpdateGroup(b, id, n, h, d)
    \/ \E b \in Budgets, id \in CategoryIds, n \in Names, h \in BOOLEAN, d \in BOOLEAN :
          RemoteUpdateCategory(b, id, n, h, d)
    \/ \E t \in Callers, b \in Budgets : SyncPayees(t, b)
    \/ \E t \in Callers, b \in Budgets : SyncCategories(t, b)
    \/ \E t \in Callers, b \in Budgets : ListCategories(t, b)
    \/ \E t \in Callers, b \in Budgets, q \in Queries : SearchCategories(t, b, q)
    \/ \E t \in Callers, b \in Budgets, id \in LookupIds(CategoryIds) :
          GetCategory(t, b, id)
    \/ \E t \in Callers, b \in Budgets, q \in Queries : SearchPayees(t, b, q)
    \/ \E t \in Callers, b \in Budgets, id \in LookupIds(PayeeIds) :
          FindPayee(t, b, id)
    \/ \E t \in Callers, b \in Budgets : QueryCategories(t, b)
    \/ \E t \in Callers : Return(t)
    \/ \E b \in Budgets, f \in FileNames : DeleteCache(b, f)
    \/ \E b \in Budgets, f \in FileNames : CorruptFile(b, f)

ToolSpec == ToolInit /\ [][ToolNext]_vars

----------------------------------------------------------------------------

Next ==
    \/ \E b \in Budgets, id \in PayeeIds : RemoteCreatePayee(b, id)
    \/ \E b \in Budgets, id \in PayeeIds, n \in Names, d \in BOOLEAN :
          RemoteUpdatePayee(b, id, n, d)
    \/ \E b \in Budgets, id \in GroupIds : RemoteCreateGroup(b, id)
    \/ \E b \in Budgets, id \in GroupIds, n \in Names, h \in BOOLEAN, d \in BOOLEAN :
          RemoteUpdateGroup(b, id, n, h, d)
    \/ \E b \in Budgets, id \in CategoryIds, g \in GroupIds :
          RemoteCreateCategory(b, id, g)
    \/ \E b \in Budgets, id \in CategoryIds, n \in Names, h \in BOOLEAN, d \in BOOLEAN :
          RemoteUpdateCategory(b, id, n, h, d)
    \/ \E t \in Callers, b \in Budgets : SyncPayees(t, b)
    \/ \E t \in Callers, b \in Budgets : SyncCategories(t, b)
    \/ \E t \in Callers, b \in Budgets, e \in Errors : SyncPayeesFails(t, b, e)
    \/ \E t \in Callers, b \in Budgets, e \in Errors : SyncCategoriesFails(t, b, e)
    \/ \E t \in Callers : Catch(t)
    \/ \E t \in Callers : Return(t)
    \/ \E b \in Budgets, f \in FileNames : DeleteCache(b, f)
    \/ \E b \in Budgets : ClearBudgetCache(b)
    \/ \E b \in Budgets, f \in FileNames : CorruptFile(b, f)

Spec == Init /\ [][Next]_vars

----------------------------------------------------------------------------
\* Two syncs of the payees of one budget in flight at once.  syncPayees runs
\* without interruption up to its await (the cache is loaded, the request
\* leaves with the cursor of that cache) and again from the answer to its
\* return (merge, save); between the two the other sync and the remote go on.

InterleavedCallers == {"t1", "t2"}

InterleavedInit ==
    /\ TrackerInit
    /\ files = [b \in Budgets |-> [f \in FileNames |-> NoFile]]
    /\ remoteKnowledge = [b \in Budgets |-> 1]
    /\ remotePayees = [b \in Budgets |-> SeedPayees]
    /\ remoteGroups = [b \in Budgets |-> EmptyMap]
    /\ remoteCategories = [b \in Budgets |-> EmptyMap]
    /\ pc = [t \in InterleavedCallers |-> "idle"]
    /\ result = [t \in InterleavedCallers |-> NoResult]
    /\ lastKnowledge = [b \in Budgets |-> [f \in FileNames |-> Absent]]

\* syncPayees up to the await: readCache, then getPayees is called with the
\* cursor of what was read.
StartSyncPayees(t, b) ==
    /\ pc[t] = "idle"
    /\ LET existing == readCache(files, b, PAYEES_CACHE_FILE) IN
          result' = [result EXCEPT ![t] =
                       [kind |-> "payees", budgetId |-> b,
                        passed |-> CursorOf(existing), existing |-> existing,
                        steps |-> <<"load", "call">>,
                        savedMeanwhile |-> <<>>]]
    /\ pc' = [pc EXCEPT ![t] = "awaiting"]
    /\ UNCHANGED <<files, remoteKnowledge, remotePayees, remoteGroups,
                   remoteCategories, lastKnowledge, rateLimitVars>>

\* The remote answers the request of t from what it holds at that moment.
AnswerPayees(t) ==
    /\ pc[t] = "awaiting"
    /\ LET b == result[t].budgetId IN
          result' = [result EXCEPT ![t] =
                       [kind |-> "payees", budgetId |-> b,
                        passed |-> result[t].passed,
                        existing |-> result[t].existing,
                        steps |-> result[t].steps,
                        savedMeanwhile |-> result[t].savedMeanwhile,
                        response |-> getPayees(remotePayees[b], remoteKnowledge[b],
                                               result[t].passed)]]
    /\ pc' = [pc EXCEPT ![t] = "answered"]
    /\ UNCHANGED <<files, remoteKnowledge, remotePayees, remoteGroups,
                   remoteCategories, lastKnowledge, rateLimitVars>>

\* The savers a sync in flight has seen save, in order (the first two), with
\* one more.
NotedSave(seen, t) == IF Len(seen) < 2 THEN Append(seen, t) ELSE seen

\* SavePayees that keeps the cursor of the file when it is the later one: the
\* records of this sync under the cursor of another.
SavePayeesKeepsLaterCursor(t, base) ==
    LET r == result[t]
        b == r.budgetId
    IN \E now \in Clock(r.existing) :
         LET out == PayeesOutcome(base, r.response, now)
             returned == [kind |-> "payees", budgetId |-> b,
                          passed |-> r.passed, existing |-> r.existing,
                          response |-> r.response,
                          cache |-> out.cache, stats |-> out.stats,
                          fileBefore |-> files[b][PAYEES_CACHE_FILE],
                          before |-> lastKnowledge[b][PAYEES_CACHE_FILE],
                          steps |-> Append(r.steps, "save"),
                          savedMeanwhile |-> r.savedMeanwhile]
             current == readCache(files, b, PAYEES_CACHE_FILE)
             saved == IF /\ current.some
                         /\ current.val.server_knowledge > out.cache.server_knowledge
                      THEN [out.cache EXCEPT
                              !.server_knowledge = current.val.server_knowledge]
                      ELSE out.cache
         IN /\ files' = writeCache(files, b, PAYEES_CACHE_FILE, saved)
            /\ lastKnowledge' = [lastKnowledge EXCEPT ![b][PAYEES_CACHE_FILE] =
                                   Some(r.response.server_knowledge)]
            /\ result' = [u \in DOMAIN result |->
                            IF u = t THEN returned
                            ELSE IF pc[u] \in {"awaiting", "answered"}
                            THEN [result[u] EXCEPT !.savedMeanwhile =
                                     NotedSave(result[u].savedMeanwhile, t)]
                            ELSE result[u]]

\* The merge of the answer into `base`, the save and the result of t; every
\* sync still in flight is noted to have seen t save.
SavePayees(t, base) ==
    LET r == result[t]
        b == r.budgetId
    IN \E now \in Clock(r.existing) :
         LET out == PayeesOutcome(base, r.response, now)
             returned == [kind |-> "payees", budgetId |-> b,
                          passed |-> r.passed, existing |-> r.existing,
                          response |-> r.response,
                          cache |-> out.cache, stats |-> out.stats,
                          fileBefore |-> files[b][PAYEES_CACHE_FILE],
                          before |-> lastKnowledge[b][PAYEES_CACHE_FILE],
                          steps |-> Append(r.steps, "save"),
                          savedMeanwhile |-> r.savedMeanwhile]
         IN /\ files' = writeCache(files, b, PAYEES_CACHE_FILE, out.cache)
            /\ lastKnowledge' = [lastKnowledge EXCEPT ![b][PAYEES_CACHE_FILE] =
                                   Some(r.response.server_knowledge)]
            /\ result' = [u \in DOMAIN result |->
                            IF u = t THEN returned
                            ELSE IF pc[u] \in {"awaiting", "answered"}
                            THEN [result[u] EXCEPT !.savedMeanwhile =
                                     NotedSave(result[u].savedMeanwhile, t)]
                            ELSE result[u]]

\* syncPayees with the cache read again once the answer is there, and the
\* answer merged into that.
FinishSyncPayeesReadsAgain(t) ==
    /\ pc[t] = "answered"
    /\ SavePayees(t, readCache(files, result[t].budgetId, PAYEES_CACHE_FILE))
    /\ pc' = [pc EXCEPT ![t] = "returned"]
    /\ UNCHANGED <<remoteKnowledge, remotePayees, remoteGroups, remoteCategories,
                   rateLimitVars>>

\* syncPayees from the answer on: the answer is merged into the cache that
\* was loaded before the await, and the result replaces the file.
FinishSyncPayees(t) ==
    /\ pc[t] = "answered"
    /\ SavePayees(t, result[t].existing)
    /\ pc' = [pc EXCEPT ![t] = "returned"]
    /\ UNCHANGED <<remoteKnowledge, remotePayees, remoteGroups, remoteCategories,
                   rateLimitVars>>

\* The remote call of t fails: syncPayees throws what the call threw, having
\* saved nothing.
RejectPayees(t, error) ==
    /\ pc[t] = "awaiting"
    /\ result' = [result EXCEPT ![t] =
                    [kind |-> "payees", budgetId |-> result[t].budgetId,
                     passed |-> result[t].passed,
                     existing |-> result[t].existing,
                     steps |-> result[t].steps,
                     savedMeanwhile |-> result[t].savedMeanwhile,
                     error |-> error, thrown |-> error]]
    /\ pc' = [pc EXCEPT ![t] = "threw"]
    /\ UNCHANGED <<files, remoteKnowledge, remotePayees, remoteGroups,
                   remoteCategories, lastKnowledge, rateLimitVars>>

\* The caller takes the result of t; a sync that had seen t save has then seen
\* the save of a sync whose result is gone.
Collected(seen, t) == [i \in 1..Len(seen) |-> IF seen[i] = t THEN "collected" ELSE seen[i]]

ReturnInterleaved(t) ==
    /\ pc[t] = "returned"
    /\ pc' = [pc EXCEPT ![t] = "idle"]
    /\ result' = [u \in DOMAIN result |->
                    IF u = t THEN NoResult
                    ELSE IF result[u].kind = "payees"
                    THEN [result[u] EXCEPT !.savedMeanwhile =
                             Collected(result[u].savedMeanwhile, t)]
                    ELSE result[u]]
    /\ UNCHANGED <<files, remoteKnowledge, remotePayees, remoteGroups,
                   remoteCategories, lastKnowledge, rateLimitVars>>

\* A payee is created on the remote, whatever the syncs are doing.
PayeeCreatedMeanwhile(b, id) ==
    /\ remoteKnowledge[b] < MaxKnowledge
    /\ id \notin DOMAIN remotePayees[b]
    /\ LET k == remoteKnowledge[b] + 1
           rec == [id |-> id, name |-> FirstName(id), deleted |-> FALSE,
                   transfer_account_id |-> TransferOf[id], changed |-> k]
       IN /\ remoteKnowledge' = [remoteKnowledge EXCEPT ![b] = k]
          /\ remotePayees' = [remotePayees EXCEPT ![b] = (id :> rec) @@ @]
    /\ UNCHANGED <<files, remoteGroups, remoteCategories, pc, result, lastKnowledge,
                   rateLimitVars>>

\* A payee is renamed or deleted on the remote, whatever the syncs are doing.
PayeeUpdatedMeanwhile(b, id, name, deleted) ==
    /\ remoteKnowledge[b] < MaxKnowledge
    /\ id \in DOMAIN remotePayees[b]
    /\ OneEdit(<<name, deleted>>,
               <<remotePayees[b][id].name, remotePayees[b][id].deleted>>)
    /\ LET k == remoteKnowledge[b] + 1 IN
          /\ remoteKnowledge' = [remoteKnowledge EXCEPT ![b] = k]
          /\ remotePayees' = [remotePayees EXCEPT ![b][id] =
                                [@ EXCEPT !.name = name, !.deleted = deleted,
                                          !.changed = k]]
    /\ UNCHANGED <<files, remoteGroups, remoteCategories, pc, result, lastKnowledge,
                   rateLimitVars>>

InterleavedNext ==
    \/ \E t \in InterleavedCallers, b \in Budgets : StartSyncPayees(t, b)
    \/ \E t \in InterleavedCallers : AnswerPayees(t)
    \/ \E t \in InterleavedCallers : FinishSyncPayees(t)
    \/ \E t \in InterleavedCallers, error \in Errors : RejectPayees(t, error)
    \/ \E t \in InterleavedCallers : Catch(t)
    \/ \E t \in InterleavedCallers : ReturnInterleaved(t)
    \/ \E b \in Budgets, id \in PayeeIds : PayeeCreatedMeanwhile(b, id)
    \/ \E b \in Budgets, id \in PayeeIds, name \in Names, deleted \in BOOLEAN :
          PayeeUpdatedMeanwhile(b, id, name, deleted)

InterleavedSpec == InterleavedInit /\ [][InterleavedNext]_vars

----------------------------------------------------------------------------
\* The rename_payee tool: validation, a look at the cache, the update of the
\* remote and then a payee sync, every error answered as a text.

\* The longest new name the tool accepts.
MaxNewNameLength == 500

\* The names tried: empty, blank, padded, ordinary, as long as allowed and one
\* character longer.
RenameNames ==
    {<<>>, <<" ">>, <<" ", "b", " ">>, <<"A", "b">>,
     [i \in 1..MaxNewNameLength |-> "a"],
     [i \in 1..(MaxNewNameLength + 1) |-> "a"]}

\* String.prototype.trimStart and trimEnd, for names padded with spaces.
RECURSIVE trimStart(_)
trimStart(str) ==
    IF str = <<>> \/ Head(str) # " " THEN str ELSE trimStart(Tail(str))

RECURSIVE trimEnd(_)
trimEnd(str) ==
    IF str = <<>> \/ str[Len(str)] # " " THEN str
    ELSE trimEnd(SubSeq(str, 1, Len(str) - 1))

\* String.prototype.trim.
trim(str) == trimEnd(trimStart(str))

\* The message of the error the validation throws, "" when it throws none.
InputProblem(budgetId, input) ==
    IF budgetId = "" THEN "No budget ID provided."
    ELSE IF input.payeeId = "" THEN "Payee ID is required."
    ELSE IF input.newName = <<>> \/ trim(input.newName) = <<>>
         THEN "New name is required and cannot be empty."
    ELSE IF Len(input.newName) > MaxNewNameLength
         THEN "New name cannot exceed 500 characters."
    ELSE ""

\* rename_payee with line 60 never true: a payee cached as deleted is renamed
\* like any other.
RenameRefusedNever(existingPayee) == FALSE

\* if (existingPayee?.deleted)
RenameRefused(existingPayee) == existingPayee.some /\ existingPayee.val.deleted

\* What execute hands back, with what it did on the way.
RenameResult(input, budgetId, calls, updated, output) ==
    [kind |-> "rename_payee", budgetId |-> budgetId, input |-> input,
     calls |-> calls, updated |-> updated, output |-> output,
     fsBefore |-> files, knowledgeBefore |-> remoteKnowledge]

\* execute(input, api), with YNAB_BUDGET_ID being env, and with the update
\* and the getPayees of the sync failing or not as the remote has it.
RenamePayee(t, input, env, updateFails, syncFails) ==
    /\ AllIdle
    /\ pc' = [pc EXCEPT ![t] = "returned"]
    /\ UNCHANGED <<remoteGroups, remoteCategories, rateLimitVars>>
    /\ LET \* getBudgetId: inputBudgetId || process.env.YNAB_BUDGET_ID || ""
           budgetId == IF input.budgetId # "" THEN input.budgetId ELSE env
           problem == InputProblem(budgetId, input)
       IN IF problem # ""
          THEN /\ ~updateFails /\ ~syncFails
               /\ result' = [result EXCEPT ![t] =
                     RenameResult(input, budgetId, <<>>, FALSE, [error |-> problem])]
               /\ UNCHANGED <<files, lastKnowledge, remoteKnowledge, remotePayees>>
          ELSE
          LET cache == getPayeesFromCache(files, budgetId)
              existingPayee == IF cache.some
                               THEN findPayeeById(cache.val, input.payeeId)
                               ELSE Absent
              known == input.payeeId \in DOMAIN remotePayees[budgetId]
              k == remoteKnowledge[budgetId] + 1
              renamed == [remotePayees[budgetId] EXCEPT ![input.payeeId] =
                            [@ EXCEPT !.name = trim(input.newName), !.changed = k]]
              response == getPayees(renamed, k, CursorOf(cache))
          IN IF RenameRefused(existingPayee)
             THEN /\ ~updateFails /\ ~syncFails
                  /\ result' = [result EXCEPT ![t] =
                        RenameResult(input, budgetId, <<>>, FALSE,
                                     [refused |-> existingPayee.val.name])]
                  /\ UNCHANGED <<files, lastKnowledge, remoteKnowledge, remotePayees>>
             ELSE IF updateFails \/ ~known
             THEN /\ ~syncFails
                  /\ result' = [result EXCEPT ![t] =
                        RenameResult(input, budgetId, <<"updatePayee">>, FALSE,
                                     [error |-> "Not Found"])]
                  /\ UNCHANGED <<files, lastKnowledge, remoteKnowledge, remotePayees>>
             ELSE /\ k <= MaxKnowledge
                  /\ remoteKnowledge' = [remoteKnowledge EXCEPT ![budgetId] = k]
                  /\ remotePayees' = [remotePayees EXCEPT ![budgetId] = renamed]
                  /\ IF syncFails
                     THEN /\ result' = [result EXCEPT ![t] =
                                RenameResult(input, budgetId,
                                             <<"updatePayee", "getPayees">>, TRUE,
                                             [error |-> "Internal Server Error"])]
                          /\ UNCHANGED <<files, lastKnowledge>>
                     ELSE \E now \in Clock(cache) :
                          LET out == PayeesOutcome(cache, response, now) IN
                          /\ files' = writeCache(files, budgetId, PAYEES_CACHE_FILE,
                                                 out.cache)
                          /\ lastKnowledge' =
                                [lastKnowledge EXCEPT ![budgetId][PAYEES_CACHE_FILE] =
                                    Some(response.server_knowledge)]
                          /\ result' = [result EXCEPT ![t] =
                                RenameResult(input, budgetId,
                                             <<"updatePayee", "getPayees">>, TRUE,
                                             [renamed |-> TRUE,
                                              id |-> input.payeeId,
                                              old_name |-> existingPayee,
                                              new_name |-> trim(input.newName)])]

\* Two payees on the remote and no cache yet.
RenameInit ==
    /\ TrackerInit
    /\ files = [b \in Budgets |-> [f \in FileNames |-> NoFile]]
    /\ remoteKnowledge = [b \in Budgets |-> 1]
    /\ remotePayees =
          [b \in Budgets |->
             [id \in PayeeIds |->
                [id |-> id, name |-> FirstName(id), deleted |-> FALSE,
                 transfer_account_id |-> TransferOf[id], changed |-> 1]]]
    /\ remoteGroups = [b \in Budgets |-> EmptyMap]
    /\ remoteCategories = [b \in Budgets |-> EmptyMap]
    /\ pc = [t \in Callers |-> "idle"]
    /\ result = [t \in Callers |-> NoResult]
    /\ lastKnowledge = [b \in Budgets |-> [f \in FileNames |-> Absent]]

RenameNext ==
    \/ \E t \in Callers, budgetId \in {""} \cup Budgets,
          payeeId \in {""} \cup LookupIds(PayeeIds),
          newName \in RenameNames, env \in {""} \cup Budgets,
          updateFails \in BOOLEAN, syncFails \in BOOLEAN :
          RenamePayee(t, [budgetId |-> budgetId, payeeId |-> payeeId,
                          newName |-> newName], env, updateFails, syncFails)
    \/ \E t \in Callers, b \in Budgets : SyncPayees(t, b)
    \/ \E b \in Budgets, id \in PayeeIds, n \in Names, d \in BOOLEAN :
          RemoteUpdatePayee(b, id, n, d)
    \/ \E t \in Callers : Return(t)

RenameSpec == RenameInit /\ [][RenameNext]_vars

----------------------------------------------------------------------------
\* The middleware of the tracked API client: after each response it reads the
\* X-Rate-Limit header and reports it to the tracker, or counts the response.

DigitChars == <<"0", "1", "2", "3", "4", "5", "6", "7", "8", "9">>
IsDigit(c) == \E i \in 1..Len(DigitChars) : DigitChars[i] = c

\* The decimal digits a string begins with.
RECURSIVE LeadingDigits(_)
LeadingDigits(str) ==
    IF str = <<>> \/ ~IsDigit(Head(str)) THEN <<>>
    ELSE <<Head(str)>> \o LeadingDigits(Tail(str))

\* The number a sequence of decimal digits writes.
RECURSIVE DecimalValue(_)
DecimalValue(digits) ==
    IF digits = <<>> THEN 0
    ELSE 10 * DecimalValue(SubSeq(digits, 1, Len(digits) - 1))
         + (CHOOSE i \in 1..Len(DigitChars) :
                DigitChars[i] = digits[Len(digits)]) - 1

\* parseInt(str, 10): leading white space is skipped, a sign is taken, and
\* the digits up to the first other character are the number; NaN, here
\* Absent, when there is no digit there.
parseInt(str) ==
    LET s == trimStart(str)
        signed == s # <<>> /\ Head(s) \in {"+", "-"}
        digits == LeadingDigits(IF signed THEN Tail(s) ELSE s)
    IN IF digits = <<>> THEN Absent
       ELSE IF signed /\ Head(s) = "-" THEN Some(0 - DecimalValue(digits))
       ELSE Some(DecimalValue(digits))

\* context.response.headers.get("X-Rate-Limit"): null when the response has no
\* such header, else its text: empty, a word, a number, or a number followed
\* by the limit.
RateLimitHeaders ==
    {Absent, Some(<<>>), Some(<<"x">>), Some(<<"4", "2">>),
     Some(<<"3", "6", "/", "2", "0", "0">>)}

\* rateLimitMiddleware.post(context), for the response to a call of t, with
\* context.response.ok being ok.
Post(t, rateLimitHeader, ok, now) ==
    /\ AllIdle
    /\ LET loaded == ensureCacheLoaded(Memory, globalFiles)
           \* if (rateLimitHeader): neither null nor the empty string
           given == rateLimitHeader.some /\ rateLimitHeader.val # <<>>
           count == IF given THEN parseInt(rateLimitHeader.val) ELSE Absent
           \* if (!isNaN(count)) updateFromHeader(count)
           updates == given /\ count.some
           \* else if (context.response.ok) incrementRequestCount()
           increments == ~given /\ ok
           mem == IF updates
                  THEN [loaded EXCEPT !.requestsUsed = count.val,
                                      !.lastUpdated = Some(now)]
                  ELSE IF increments
                  THEN [loaded EXCEPT !.requestsUsed = @ + 1,
                                      !.lastUpdated = Some(now)]
                  ELSE loaded
       IN /\ increments => loaded.requestsUsed < MaxRequests
          /\ requestsUsed' = mem.requestsUsed
          /\ lastUpdated' = mem.lastUpdated
          /\ cacheLoaded' = mem.cacheLoaded
          /\ globalFiles' = IF updates \/ increments
                            THEN saveToCache(globalFiles, mem, now)
                            ELSE globalFiles
          /\ result' = [result EXCEPT ![t] =
                [kind |-> "post", header |-> rateLimitHeader, ok |-> ok,
                 before |-> loaded.requestsUsed,
                 level |-> getRateLimitWarningLevel(getRateLimitStatus(mem))]]
    /\ pc' = [pc EXCEPT ![t] = "returned"]
    /\ UNCHANGED <<files, remoteKnowledge, remotePayees, remoteGroups,
                   remoteCategories, lastKnowledge>>

MiddlewareNext ==
    \/ \E t \in Callers, rateLimitHeader \in RateLimitHeaders, ok \in BOOLEAN,
          now \in Times : Post(t, rateLimitHeader, ok, now)
    \/ ResetTracker
    \/ Restart
    \/ \E f \in GlobalFileNames : CorruptGlobalFile(f)
    \/ \E t \in Callers : Return(t)

MiddlewareSpec == Init /\ [][MiddlewareNext]_vars

----------------------------------------------------------------------------
\* Properties of the syncs, stated on the result a sync has just returned.

Returned(t, kind) == pc[t] = "returned" /\ result[t].kind = kind
IsDelta(t) == result[t].existing.some
Ids(list) == {list[i].id : i \in 1..Len(list)}
Positions(list, id) == {i \in 1..Len(list) : list[i].id = id}
\* What the file of the sync that has just returned holds now.
Persisted(t) ==
    files[result[t].budgetId][IF result[t].kind = "payees"
                              THEN PAYEES_CACHE_FILE
                              ELSE CATEGORIES_CACHE_FILE]

\* C1: after a payee sync the persisted cache mirrors the remote as of that
\* response: every remote payee is cached once, with the remote's name,
\* deleted flag and transfer account id, no other payee is cached, and the
\* cached payees that are not deleted are the remote's that are not deleted.
C1_PayeeCacheMirrorsRemote ==
    \A t \in Callers :
        Returned(t, "payees") =>
            LET remote == remotePayees[result[t].budgetId]
                cached == Persisted(t).value.payees
            IN /\ Persisted(t).state = "json"
               /\ Ids(cached) = DOMAIN remote
               /\ \A id \in DOMAIN remote :
                     /\ Cardinality(Positions(cached, id)) = 1
                     /\ \A i \in Positions(cached, id) :
                           /\ cached[i].name = remote[id].name
                           /\ cached[i].deleted = remote[id].deleted
                           /\ cached[i].transfer_account_id =
                                 remote[id].transfer_account_id
               /\ {cached[i].id : i \in {j \in 1..Len(cached) : ~cached[j].deleted}}
                     = {id \in DOMAIN remote : ~remote[id].deleted}

\* A delta that brought a known payee deleted and a new payee.
C1_Witness ==
    \E t \in Callers :
        /\ Returned(t, "payees")
        /\ IsDelta(t)
        /\ Len(result[t].response.payees) = 2
        /\ Len(result[t].existing.val.payees) = 1
        /\ \E i \in 1..Len(result[t].cache.payees) :
              result[t].cache.payees[i].deleted

UniqueIds(list) ==
    \A i, j \in 1..Len(list) : list[i].id = list[j].id => i = j

\* C2: every persisted cache holds at most one payee per id, at most one
\* category group per id and at most one category per id.
C2_AtMostOneRecordPerId ==
    \A b \in Budgets :
        /\ files[b][PAYEES_CACHE_FILE].state = "json" =>
              UniqueIds(files[b][PAYEES_CACHE_FILE].value.payees)
        /\ files[b][CATEGORIES_CACHE_FILE].state = "json" =>
              /\ UniqueIds(files[b][CATEGORIES_CACHE_FILE].value.category_groups)
              /\ UniqueIds(files[b][CATEGORIES_CACHE_FILE].value.categories)

\* A delta whose answer held a payee that was cached already, merged into a
\* cache of two payees.
C2_Witness ==
    \E t \in Callers :
        /\ Returned(t, "payees")
        /\ IsDelta(t)
        /\ Len(result[t].existing.val.payees) = 2
        /\ \E i \in 1..Len(result[t].response.payees) :
              result[t].response.payees[i].id \in Ids(result[t].existing.val.payees)

\* C3: the persisted server_knowledge is the one the sync's remote call
\* returned, and is not smaller than the one persisted by the sync before it.
C3_CursorIsTheReturnedOne ==
    \A t \in Callers :
        pc[t] = "returned" =>
            /\ Persisted(t).state = "json"
            /\ Persisted(t).value.server_knowledge =
                  result[t].response.server_knowledge
            /\ result[t].cache.server_knowledge =
                  result[t].response.server_knowledge
            /\ result[t].before.some =>
                  Persisted(t).value.server_knowledge >= result[t].before.val

\* A delta that moved the cursor forward.
C3_Witness ==
    \E t \in Callers :
        /\ Returned(t, "payees")
        /\ IsDelta(t)
        /\ result[t].before.some
        /\ Persisted(t).value.server_knowledge > result[t].before.val

\* C4: the cursor a sync passes is the one the remote returned to the last
\* completed sync of that file, and it is absent exactly when the file was
\* missing or unreadable when the sync loaded it.
C4_CursorPassedIsLastReturned ==
    \A t \in Callers :
        pc[t] = "returned" =>
            /\ result[t].passed.some <=> result[t].fileBefore.state = "json"
            /\ result[t].passed.some => result[t].passed = result[t].before

\* A delta sync that passed a cursor the remote had returned to an earlier sync.
C4_Witness ==
    \E t \in Callers :
        /\ pc[t] = "returned"
        /\ result[t].passed.some
        /\ result[t].passed.val > 1


RECURSIVE ResponseCategories(_)
\* Every category of an answer, group after group.
ResponseCategories(groups) ==
    IF groups = <<>> THEN <<>>
    ELSE Head(groups).categories \o ResponseCategories(Tail(groups))

\* Of the records of `after`, those with the id of a record of `before`, where
\* `answer` are the records the remote sent: a deleted flag goes from true to
\* false only when the answer holds the id not deleted, and a record the answer
\* does not hold keeps its flag.
DeletedFlagFollowsAnswer(before, after, answer) ==
    \A i \in 1..Len(before) :
        \A j \in Positions(after, before[i].id) :
            /\ (before[i].deleted /\ ~after[j].deleted) =>
                  \E k \in 1..Len(answer) :
                      answer[k].id = before[i].id /\ ~answer[k].deleted
            /\ before[i].id \notin Ids(answer) =>
                  after[j].deleted = before[i].deleted

\* C5: in a sync, a cached record's deleted flag changes from true to false only
\* when the response holds its id with deleted = false, and a record whose id the
\* response does not hold keeps its flag (payees, groups and categories).
C5_DeletedRevertedOnlyByRemote ==
    \A t \in Callers :
        /\ (Returned(t, "payees") /\ IsDelta(t)) =>
              DeletedFlagFollowsAnswer(result[t].existing.val.payees,
                                       Persisted(t).value.payees,
                                       result[t].response.payees)
        /\ (Returned(t, "categories") /\ IsDelta(t)) =>
              /\ DeletedFlagFollowsAnswer(
                    result[t].existing.val.category_groups,
                    Persisted(t).value.category_groups,
                    result[t].response.category_groups)
              /\ DeletedFlagFollowsAnswer(
                    result[t].existing.val.categories,
                    Persisted(t).value.categories,
                    ResponseCategories(result[t].response.category_groups))

\* A delta that undeleted one cached payee and did not hold the other, a
\* tombstone or not.
C5_Witness ==
    \E t \in Callers :
        /\ Returned(t, "payees")
        /\ IsDelta(t)
        /\ \E i \in 1..Len(result[t].existing.val.payees) :
              /\ result[t].existing.val.payees[i].deleted
              /\ ~result[t].cache.payees[i].deleted

\* Of a delta: every record that was cached is still cached, the list is not
\* shorter, and a record the answer holds deleted is cached with deleted = true.
NothingRemoved(before, after, answer) ==
    /\ Ids(before) \subseteq Ids(after)
    /\ Len(after) >= Len(before)
    /\ \A k \in 1..Len(answer) :
          answer[k].deleted =>
              \E j \in 1..Len(after) :
                  after[j].id = answer[k].id /\ after[j].deleted

\* C6: a delta sync removes no record from the cache; a record the remote
\* reports deleted stays in the list with deleted = true, so the cached ids
\* only grow and the list does not get shorter.
C6_DeltaNeverRemoves ==
    \A t \in Callers :
        /\ (Returned(t, "payees") /\ IsDelta(t)) =>
              NothingRemoved(result[t].existing.val.payees,
                             Persisted(t).value.payees,
                             result[t].response.payees)
        /\ (Returned(t, "categories") /\ IsDelta(t)) =>
              /\ NothingRemoved(result[t].existing.val.category_groups,
                                Persisted(t).value.category_groups,
                                result[t].response.category_groups)
              /\ NothingRemoved(result[t].existing.val.categories,
                                Persisted(t).value.categories,
                                ResponseCategories(result[t].response.category_groups))

\* A delta that reported a cached, live payee deleted.
C6_Witness ==
    \E t \in Callers :
        /\ Returned(t, "payees")
        /\ IsDelta(t)
        /\ \E i \in 1..Len(result[t].existing.val.payees) :
              /\ ~result[t].existing.val.payees[i].deleted
              /\ result[t].cache.payees[i].deleted
              /\ result[t].cache.payees[i].id = result[t].existing.val.payees[i].id

\* C7: in every persisted category cache, each category carries the cached
\* name of the group its category_group_id names.
C7_GroupNameMatchesGroup ==
    \A b \in Budgets :
        files[b][CATEGORIES_CACHE_FILE].state = "json" =>
            LET cache == files[b][CATEGORIES_CACHE_FILE].value IN
            \A i \in 1..Len(cache.categories) :
                \A g \in Positions(cache.category_groups,
                                   cache.categories[i].category_group_id) :
                    cache.categories[i].category_group_name =
                        cache.category_groups[g].name


\* The number of records of `answer` that are cached in `before` with
\* deleted = false and arrive with deleted = true.
Deletions(before, answer) ==
    Cardinality({k \in 1..Len(answer) :
                    /\ answer[k].deleted
                    /\ \E i \in 1..Len(before) :
                          before[i].id = answer[k].id /\ ~before[i].deleted})

\* C8: the totals a sync reports are the numbers of records of the cache it
\* returned and persisted that are not deleted (for categories and groups: not
\* deleted and not hidden).
C8_TotalCountsFinalCache ==
    \A t \in Callers :
        /\ Returned(t, "payees") =>
              /\ Persisted(t) = Stringify(result[t].cache)
              /\ result[t].stats.total =
                    Cardinality({i \in 1..Len(result[t].cache.payees) :
                                    ~result[t].cache.payees[i].deleted})
        /\ Returned(t, "categories") =>
              /\ Persisted(t) = Stringify(result[t].cache)
              /\ result[t].stats.total_groups =
                    Cardinality({i \in 1..Len(result[t].cache.category_groups) :
                                    /\ ~result[t].cache.category_groups[i].deleted
                                    /\ ~result[t].cache.category_groups[i].hidden})
              /\ result[t].stats.total_categories =
                    Cardinality({i \in 1..Len(result[t].cache.categories) :
                                    /\ ~result[t].cache.categories[i].deleted
                                    /\ ~result[t].cache.categories[i].hidden})

\* A delta of one record that changed the number of live payees of a cache of two.
C8_Witness ==
    \E t \in Callers :
        /\ Returned(t, "payees")
        /\ IsDelta(t)
        /\ Len(result[t].response.payees) = 1
        /\ Len(result[t].cache.payees) = 2
        /\ result[t].stats.total = 1
        /\ result[t].stats.deleted = 1

\* C9: a delta whose answer is empty and returns the cursor it was passed
\* leaves the records and the cursor as loaded, reports new, updated and
\* deleted as 0 and the total of the loaded cache; only last_synced may differ.
C9_EmptyDeltaChangesNothing ==
    \A t \in Callers :
        /\ ( /\ Returned(t, "payees")
             /\ IsDelta(t)
             /\ result[t].response.payees = <<>>
             /\ result[t].response.server_knowledge = result[t].passed.val ) =>
              /\ Persisted(t).state = "json"
              /\ [Persisted(t).value EXCEPT !.last_synced = "T"] =
                    [result[t].existing.val EXCEPT !.last_synced = "T"]
              /\ result[t].cache = Persisted(t).value
              /\ result[t].stats.new = 0
              /\ result[t].stats.updated = 0
              /\ result[t].stats.deleted = 0
              /\ result[t].stats.total =
                    Cardinality({i \in 1..Len(result[t].existing.val.payees) :
                                    ~result[t].existing.val.payees[i].deleted})
        /\ ( /\ Returned(t, "categories")
             /\ IsDelta(t)
             /\ result[t].response.category_groups = <<>>
             /\ result[t].response.server_knowledge = result[t].passed.val ) =>
              /\ Persisted(t).state = "json"
              /\ [Persisted(t).value EXCEPT !.last_synced = "T"] =
                    [result[t].existing.val EXCEPT !.last_synced = "T"]
              /\ result[t].cache = Persisted(t).value
              /\ result[t].stats =
                    [ZeroCategoryStats EXCEPT
                       !.total_groups =
                          Cardinality({i \in 1..Len(result[t].existing.val.category_groups) :
                             /\ ~result[t].existing.val.category_groups[i].deleted
                             /\ ~result[t].existing.val.category_groups[i].hidden}),
                       !.total_categories =
                          Cardinality({i \in 1..Len(result[t].existing.val.categories) :
                             /\ ~result[t].existing.val.categories[i].deleted
                             /\ ~result[t].existing.val.categories[i].hidden})]

\* An empty delta at an unchanged cursor, on a cache that holds a live payee
\* and a tombstone and was itself left by a delta.
C9_Witness ==
    \E t \in Callers :
        /\ Returned(t, "payees")
        /\ IsDelta(t)
        /\ result[t].response.payees = <<>>
        /\ result[t].response.server_knowledge = result[t].passed.val
        /\ result[t].existing.val.last_synced = "T2"
        /\ Len(result[t].cache.payees) = 2
        /\ result[t].stats.total = 1

\* C10: in a delta, the deleted counter is the number of response records that
\* are cached with deleted = false and arrive with deleted = true, and none of
\* them is counted as new or updated: new and updated together are at most the
\* number of the other response records (payees, groups and categories).
C10_DeletionCountedOnce ==
    \A t \in Callers :
        /\ (Returned(t, "payees") /\ IsDelta(t)) =>
              LET d == Deletions(result[t].existing.val.payees,
                                 result[t].response.payees)
              IN /\ result[t].stats.deleted = d
                 /\ result[t].stats.new + result[t].stats.updated
                       <= Len(result[t].response.payees) - d
        /\ (Returned(t, "categories") /\ IsDelta(t)) =>
              LET answer == ResponseCategories(result[t].response.category_groups)
                  dg == Deletions(result[t].existing.val.category_groups,
                                  result[t].response.category_groups)
                  dc == Deletions(result[t].existing.val.categories, answer)
              IN /\ result[t].stats.deleted_groups = dg
                 /\ result[t].stats.new_groups + result[t].stats.updated_groups
                       <= Len(result[t].response.category_groups) - dg
                 /\ result[t].stats.deleted_categories = dc
                 /\ result[t].stats.new_categories
                       + result[t].stats.updated_categories <= Len(answer) - dc

\* A delta of two payees, one of them a cached live payee that arrived deleted.
C10_Witness ==
    \E t \in Callers :
        /\ Returned(t, "payees")
        /\ IsDelta(t)
        /\ Len(result[t].response.payees) = 2
        /\ Deletions(result[t].existing.val.payees, result[t].response.payees) = 1
        /\ result[t].stats.deleted = 1


----------------------------------------------------------------------------
\* Failures and unreadable files.

\* The file a sync works on.
FileOf(kind) ==
    IF kind = "payees" THEN PAYEES_CACHE_FILE ELSE CATEGORIES_CACHE_FILE

\* C11: when the remote call of a sync fails, the caller gets the very error
\* the call rejected with, the cache file of the budget is what it was before
\* the sync, and the cursor a sync would pass now is the one the failed sync
\* passed.
C11_RemoteFailureLeavesCache ==
    \A t \in Callers :
        pc[t] = "threw" =>
            LET b == result[t].budgetId
                f == FileOf(result[t].kind)
            IN /\ result[t].error = result[t].thrown
               /\ files[b][f] = result[t].fileBefore
               /\ CursorOf(readCache(files, b, f)) = result[t].passed
               /\ lastKnowledge[b][f].some =>
                     (result[t].passed.some =>
                         result[t].passed = lastKnowledge[b][f])

\* A delta sync of payees that failed after the cursor had moved past the
\* first one.
C11_Witness ==
    \E t \in Callers :
        /\ pc[t] = "threw"
        /\ result[t].kind = "payees"
        /\ result[t].passed.some
        /\ result[t].passed.val > 1
        /\ Len(result[t].existing.val.payees) = 2

\* The remote's records that are not deleted.
LiveOf(remote) == {id \in DOMAIN remote : ~remote[id].deleted}

----------------------------------------------------------------------------
\* The store called directly.

StoreKinds == {"writeCache", "deleteCache", "clearBudgetCache"}

\* The call of t that has just ended met an I/O error: a write that failed, an
\* unlink of an existing file that failed, an rm that failed.
MetIOError(t) ==
    /\ pc[t] \in {"returned", "threw"}
    /\ result[t].kind \in StoreKinds
    /\ result[t].out.fault # "none"
    /\ result[t].kind = "deleteCache" =>
          result[t].fsBefore[result[t].budgetId][result[t].filename] # NoFile

\* C13: an I/O error met by writeCache, deleteCache or clearBudgetCache leaves
\* the call as an error: the call does not return a value.
C13_StoreErrorsPropagate ==
    \A t \in Callers : MetIOError(t) => pc[t] = "threw"

C15_PartitionedByBudgetAndName ==
    [][\A t \in Callers :
          (pc[t] = "idle" /\ pc'[t] # "idle") =>
              LET r == result'[t] IN
              /\ \A b \in DOMAIN files \ {r.budgetId} : files'[b] = files[b]
              /\ r.kind \in {"payees", "categories"} =>
                    \A f \in DOMAIN files[r.budgetId] \ {FileOf(r.kind)} :
                        files'[r.budgetId][f] = files[r.budgetId][f]
              /\ r.kind \in {"writeCache", "deleteCache", "readCache"} =>
                    \A f \in DOMAIN files[r.budgetId] \ {r.filename} :
                        files'[r.budgetId][f] = files[r.budgetId][f]
              /\ (r.kind = "clearBudgetCache" /\ pc'[t] = "returned") =>
                    \A f \in DOMAIN files[r.budgetId] :
                        readCache(files', r.budgetId, f) = Absent
      ]_vars

\* clearBudgetCache has returned for a budget that held three files, while the
\* other budget holds its three.
C15_Witness ==
    \E t \in Callers :
        /\ pc[t] = "returned"
        /\ result[t].kind = "clearBudgetCache"
        /\ \A f \in StoreFileNames :
              /\ result[t].fsBefore[result[t].budgetId][f].state = "json"
              /\ files[result[t].budgetId][f] = NoFile
        /\ \E b \in DOMAIN files \ {result[t].budgetId} :
              \A f \in StoreFileNames : files[b][f].state = "json"

----------------------------------------------------------------------------
\* Reading the cache.

\* Two characters are the same letter, in either case.
SameLetter(x, y) == x = y \/ {x, y} = {"a", "A"} \/ {x, y} = {"b", "B"}

\* `query` occurs in `name` at some offset, letter for letter, case aside.
ContainsIgnoringCase(name, query) ==
    \E off \in 0..(Len(name) - Len(query)) :
        \A k \in 1..Len(query) : SameLetter(name[off + k], query[k])

\* Two queries that differ in letter case only.
SameIgnoringCase(q1, q2) ==
    /\ Len(q1) = Len(q2)
    /\ \A k \in 1..Len(q1) : SameLetter(q1[k], q2[k])

\* `matches` are the records of `list` that are wanted, each once.
ExactlyThe(matches, list, Wanted(_)) ==
    /\ Len(matches) = Cardinality({i \in 1..Len(list) : Wanted(list[i])})
    /\ \A j \in 1..Len(matches) :
          \E i \in 1..Len(list) : list[i] = matches[j] /\ Wanted(list[i])
    /\ \A i \in 1..Len(list) :
          Wanted(list[i]) => \E j \in 1..Len(matches) : matches[j] = list[i]

\* C16: a search by name returns exactly the cached records that are not
\* deleted (categories: nor hidden) and whose name (categories: name or group
\* name) contains the query, letter case aside; so it returns no deleted or
\* hidden record, and the same records for queries that differ in case only.
C16_SearchFindsActiveMatches ==
    \A t \in Callers :
        pc[t] = "returned" =>
            LET r == result[t] IN
            /\ r.kind = "searchPayeesInCache" =>
                  /\ ExactlyThe(r.output, r.cache.payees,
                                LAMBDA p : /\ ~p.deleted
                                           /\ ContainsIgnoringCase(p.name, r.arg))
                  /\ \A j \in 1..Len(r.output) : ~r.output[j].deleted
                  /\ \A q \in Queries :
                        SameIgnoringCase(q, r.arg) =>
                            searchPayeesInCache(r.cache, q) = r.output
            /\ r.kind = "search_categories" =>
                  /\ ExactlyThe(r.output.matches, r.cache.categories,
                                LAMBDA c :
                                   /\ ~c.deleted
                                   /\ ~c.hidden
                                   /\ \/ ContainsIgnoringCase(c.name, r.arg)
                                      \/ ContainsIgnoringCase(c.category_group_name,
                                                              r.arg))
                  /\ \A j \in 1..Len(r.output.matches) :
                        ~r.output.matches[j].deleted /\ ~r.output.matches[j].hidden
                  /\ \A q \in Queries :
                        SameIgnoringCase(q, r.arg) =>
                            searchCategoriesInCache(r.cache, q) = r.output.matches

\* A search for a capital letter over two payees whose names both hold the
\* letter, one of them deleted, that found the other, stored in small.
C16_Witness ==
    \E t \in Callers :
        /\ pc[t] = "returned"
        /\ result[t].kind = "searchPayeesInCache"
        /\ result[t].arg = <<"A">>
        /\ Len(result[t].output) = 1
        /\ result[t].output[1].name = <<"a">>
        /\ Cardinality({i \in 1..Len(result[t].cache.payees) :
                           ContainsIgnoringCase(result[t].cache.payees[i].name,
                                                result[t].arg)}) = 2
        /\ \E i \in 1..Len(result[t].cache.payees) :
              result[t].cache.payees[i].deleted

\* A lookup by id over `list` gave `found`: the record with the id, deleted
\* or not, and nothing only when no record has the id.
LooksUp(found, list, id) ==
    /\ found = Absent <=> id \notin Ids(list)
    /\ \A i \in 1..Len(list) : list[i].id = id => found = Some(list[i])

\* C17: a record a delta sync has just marked deleted is still found by id
\* in the resulting cache, with deleted = true, and is not in the active view;
\* a lookup by id gives absent only for an id no cached record has.
C17_LookupKeepsDeleted ==
    \A t \in Callers :
        pc[t] = "returned" =>
            LET r == result[t] IN
            /\ (r.kind = "payees" /\ IsDelta(t)) =>
                  \A i \in 1..Len(r.existing.val.payees) :
                      (~r.existing.val.payees[i].deleted /\ r.cache.payees[i].deleted) =>
                          /\ findPayeeById(r.cache, r.cache.payees[i].id).some
                          /\ findPayeeById(r.cache, r.cache.payees[i].id).val.deleted
                          /\ findPayeeById(r.cache, r.cache.payees[i].id).val.id
                                = r.existing.val.payees[i].id
                          /\ r.cache.payees[i].id \notin Ids(getActivePayees(r.cache))
            /\ (r.kind = "categories" /\ IsDelta(t)) =>
                  \A i \in 1..Len(r.existing.val.categories) :
                      (~r.existing.val.categories[i].deleted
                            /\ r.cache.categories[i].deleted) =>
                          /\ findCategoryById(r.cache, r.cache.categories[i].id).some
                          /\ findCategoryById(r.cache, r.cache.categories[i].id).val.deleted
                          /\ r.cache.categories[i].id
                                \notin Ids(getActiveCategories(r.cache))
            /\ r.kind = "findPayeeById" =>
                  /\ LooksUp(r.output, r.cache.payees, r.arg)
                  /\ Ids(r.active) =
                        {r.cache.payees[i].id :
                            i \in {j \in 1..Len(r.cache.payees) :
                                      ~r.cache.payees[j].deleted}}
            /\ r.kind = "get_category" =>
                  LooksUp(r.output.found, r.cache.categories, r.arg)

\* A delta sync that marked one of two cached payees deleted.
C17_Witness ==
    \E t \in Callers :
        /\ Returned(t, "payees")
        /\ IsDelta(t)
        /\ Len(result[t].cache.payees) = 2
        /\ \E i \in 1..Len(result[t].existing.val.payees) :
              /\ ~result[t].existing.val.payees[i].deleted
              /\ result[t].cache.payees[i].deleted
              /\ findPayeeById(result[t].cache, result[t].cache.payees[i].id)
                    = Some(result[t].cache.payees[i])

CategoryTools == {"list_categories", "search_categories", "get_category"}

----------------------------------------------------------------------------
\* The warning level.

\* The level the table of the smoke test gives a request count.
LevelOfCount(n) ==
    IF n <= 149 THEN "ok"
    ELSE IF n <= 179 THEN "warning"
    ELSE IF n <= 199 THEN "critical"
    ELSE "exceeded"

\* C19: the warning level is ok for 0 to 149 requests used, warning for 150
\* to 179, critical for 180 to 199 and exceeded for 200 or more.
C19_LevelsByCount ==
    \A t \in Callers :
        Returned(t, "getRateLimitWarningLevel") =>
            result[t].level = LevelOfCount(result[t].status.requestsUsed)

----------------------------------------------------------------------------
\* Interleaved syncs.

\* Two payee syncs of one budget have both returned, and both had loaded
\* the cache before either saved: `first` saved with no save since its load,
\* and `second` saved having seen, since its load, the save of `first` alone.
Overlapped(first, second) ==
    /\ first # second
    /\ Returned(first, "payees")
    /\ Returned(second, "payees")
    /\ result[first].budgetId = result[second].budgetId
    /\ result[first].savedMeanwhile = <<>>
    /\ result[second].savedMeanwhile = <<first>>

\* The record of `list` with the id, if any.
RecordOf(list, id) == {list[i] : i \in Positions(list, id)}

\* C20: when two payee syncs of a budget both load the cache before either
\* saves, both pass the same cursor; the file then holds the merge of the
\* second saver alone, with the cursor the second saver received: a payee that
\* only the first saver's response carried is in the file as it was in the
\* cache both loaded, or not at all.
C20_SecondSaveOverwritesFirst ==
    \A first \in DOMAIN pc, second \in DOMAIN pc :
        Overlapped(first, second) =>
            LET f == result[first]
                s == result[second]
                file == files[s.budgetId][PAYEES_CACHE_FILE]
                loaded == IF s.existing.some THEN s.existing.val.payees ELSE <<>>
            IN /\ f.existing = s.existing
               /\ f.passed = s.passed
               /\ s.fileBefore = Stringify(f.cache)
               /\ file = Stringify(s.cache)
               /\ s.cache = PayeesOutcome(s.existing, s.response,
                                          s.cache.last_synced).cache
               /\ file.value.server_knowledge = s.response.server_knowledge
               /\ \A i \in 1..Len(f.response.payees) :
                     f.response.payees[i].id \notin Ids(s.response.payees) =>
                         RecordOf(file.value.payees, f.response.payees[i].id)
                           = RecordOf(loaded, f.response.payees[i].id)

\* The second saver was answered before a payee was renamed on the remote and
\* the first saver after: the first saved the new name, the second put the old
\* one back, with a cursor smaller than the one the first had saved.
C20_Witness ==
    \E first \in DOMAIN pc, second \in DOMAIN pc :
        /\ Overlapped(first, second)
        /\ result[first].existing.some
        /\ result[second].response.server_knowledge
              < result[first].response.server_knowledge
        /\ files[result[second].budgetId][PAYEES_CACHE_FILE].value.server_knowledge
              < result[first].cache.server_knowledge
        /\ \E i \in 1..Len(result[first].response.payees) :
              LET p == result[first].response.payees[i] IN
              /\ p.id \notin Ids(result[second].response.payees)
              /\ \E saved \in RecordOf(result[first].cache.payees, p.id),
                    kept \in RecordOf(result[second].cache.payees, p.id) :
                    saved.name = p.name /\ kept.name # p.name

----------------------------------------------------------------------------
\* The merge of a delta, record by record, and the first sync.

\* The response records that are cached already and do not turn a cached live
\* record into a deleted one.
OtherFound(before, answer) ==
    {k \in 1..Len(answer) :
        \E i \in 1..Len(before) :
            /\ before[i].id = answer[k].id
            /\ ~(answer[k].deleted /\ ~before[i].deleted)}

\* The response records that are not cached.
NotCached(before, answer) ==
    {k \in 1..Len(answer) : answer[k].id \notin Ids(before)}

\* The groups of a response with the categories each one carries, flattened
\* to pairs of a category and its group.
RECURSIVE ResponsePairs(_)
ResponsePairs(groups) ==
    IF groups = <<>> THEN <<>>
    ELSE [i \in 1..Len(Head(groups).categories) |->
             [category |-> Head(groups).categories[i], group |-> Head(groups)]]
         \o ResponsePairs(Tail(groups))

\* C22: in a delta, every response record that is cached already and is not a
\* deletion of a live cached record replaces the cached record at its position
\* and adds one to the updated counter (payees, groups and categories).
C22_FoundRecordCountsAsUpdated ==
    \A t \in Callers :
        /\ (Returned(t, "payees") /\ IsDelta(t)) =>
              LET before == result[t].existing.val.payees
                  answer == result[t].response.payees
              IN /\ result[t].stats.updated = Cardinality(OtherFound(before, answer))
                 /\ \A k \in OtherFound(before, answer) :
                       \A i \in Positions(before, answer[k].id) :
                           result[t].cache.payees[i] = CachedPayee(answer[k])
        /\ (Returned(t, "categories") /\ IsDelta(t)) =>
              LET groups == result[t].response.category_groups
                  pairs == ResponsePairs(groups)
                  answer == ResponseCategories(groups)
                  beforeG == result[t].existing.val.category_groups
                  beforeC == result[t].existing.val.categories
              IN /\ result[t].stats.updated_groups
                       = Cardinality(OtherFound(beforeG, groups))
                 /\ \A k \in OtherFound(beforeG, groups) :
                       \A i \in Positions(beforeG, groups[k].id) :
                           result[t].cache.category_groups[i] = CachedGroup(groups[k])
                 /\ result[t].stats.updated_categories
                       = Cardinality(OtherFound(beforeC, answer))
                 /\ \A k \in OtherFound(beforeC, answer) :
                       \A i \in Positions(beforeC, answer[k].id) :
                           result[t].cache.categories[i]
                             = CachedCategory(pairs[k].category, pairs[k].group)

\* C23: in a delta, the response records that are not cached are appended to
\* the cached list in response order, each adds one to the new counter, deleted
\* or not, and none adds to the deleted counter (payees, groups, categories).
C23_UnknownRecordIsAppendedAsNew ==
    \A t \in Callers :
        /\ (Returned(t, "payees") /\ IsDelta(t)) =>
              LET before == result[t].existing.val.payees
                  answer == result[t].response.payees
                  after == result[t].cache.payees
              IN /\ result[t].stats.new = Cardinality(NotCached(before, answer))
                 /\ result[t].stats.deleted = Deletions(before, answer)
                 /\ Len(after) = Len(before) + Cardinality(NotCached(before, answer))
                 /\ SubSeq(after, Len(before) + 1, Len(after))
                       = MapCachedPayee(SelectSeq(answer,
                                           LAMBDA p : p.id \notin Ids(before)))
        /\ (Returned(t, "categories") /\ IsDelta(t)) =>
              LET groups == result[t].response.category_groups
                  pairs == ResponsePairs(groups)
                  answer == ResponseCategories(groups)
                  beforeG == result[t].existing.val.category_groups
                  beforeC == result[t].existing.val.categories
                  afterG == result[t].cache.category_groups
                  afterC == result[t].cache.categories
                  newPairs == SelectSeq(pairs,
                                 LAMBDA q : q.category.id \notin Ids(beforeC))
                  newGroups == SelectSeq(groups, LAMBDA g : g.id \notin Ids(beforeG))
              IN /\ result[t].stats.new_groups
                       = Cardinality(NotCached(beforeG, groups))
                 /\ result[t].stats.deleted_groups = Deletions(beforeG, groups)
                 /\ SubSeq(afterG, Len(beforeG) + 1, Len(afterG))
                       = [i \in 1..Len(newGroups) |-> CachedGroup(newGroups[i])]
                 /\ result[t].stats.new_categories
                       = Cardinality(NotCached(beforeC, answer))
                 /\ result[t].stats.deleted_categories = Deletions(beforeC, answer)
                 /\ SubSeq(afterC, Len(beforeC) + 1, Len(afterC))
                       = [i \in 1..Len(newPairs) |->
                             CachedCategory(newPairs[i].category, newPairs[i].group)]

\* A delta brought a payee the cache did not have, already deleted: it is the
\* last record of the cache now, counted as new and not as deleted.
C23_Witness ==
    \E t \in Callers :
        /\ Returned(t, "payees")
        /\ IsDelta(t)
        /\ \E k \in NotCached(result[t].existing.val.payees,
                                result[t].response.payees) :
              /\ result[t].response.payees[k].deleted
              /\ result[t].cache.payees[Len(result[t].cache.payees)]
                    = CachedPayee(result[t].response.payees[k])
        /\ result[t].stats.new = 1
        /\ result[t].stats.deleted = 0

\* C24: the cache of a first sync holds exactly the response records with
\* deleted = false, in response order.
C24_FirstSyncStoresLiveRecordsOnly ==
    \A t \in Callers :
        /\ (Returned(t, "payees") /\ ~IsDelta(t)) =>
              result[t].cache.payees
                = MapCachedPayee(SelectSeq(result[t].response.payees,
                                           LAMBDA p : ~p.deleted))
        /\ (Returned(t, "categories") /\ ~IsDelta(t)) =>
              LET groups == SelectSeq(result[t].response.category_groups,
                                      LAMBDA g : ~g.deleted)
                  pairs == SelectSeq(ResponsePairs(result[t].response.category_groups),
                                     LAMBDA q : ~q.category.deleted)
              IN /\ result[t].cache.category_groups
                       = [i \in 1..Len(groups) |-> CachedGroup(groups[i])]
                 /\ result[t].cache.categories
                       = [i \in 1..Len(pairs) |->
                             CachedCategory(pairs[i].category, pairs[i].group)]

----------------------------------------------------------------------------
\* What a sync does, and when.

\* The payee sync of t in a step: it has the answer before the step and has
\* returned after it.
Saves(t) == pc[t] = "answered" /\ pc'[t] = "returned"

\* Every step that changes a cache file is the end of one sync, from the
\* answer to the return, with every other caller where it was: the file is
\* then the merge of that sync's answer into the cache that sync had loaded.
SaveIsOneSyncsMerge ==
    \A b \in Budgets, f \in FileNames :
        files'[b][f] # files[b][f] =>
            \E t \in DOMAIN pc :
                /\ Saves(t)
                /\ \A u \in DOMAIN pc \ {t} : pc'[u] = pc[u]
                /\ result[t].budgetId = b
                /\ f = PAYEES_CACHE_FILE
                /\ files'[b][f]
                     = Stringify(PayeesOutcome(result[t].existing, result[t].response,
                                               result'[t].cache.last_synced).cache)
                /\ result'[t].cache = files'[b][f].value

\* The loads, remote calls and saves of the sync of t so far, by its place.
StepsAt(t) ==
    /\ pc[t] \in {"awaiting", "answered", "threw"} =>
          result[t].steps = <<"load", "call">>
    /\ pc[t] = "returned" => result[t].steps = <<"load", "call", "save">>

\* C21: a sync loads the cache once, then calls the remote once, then saves
\* at most once (not at all when the call fails); a cache file changes only in
\* the one step that takes a sync from its answer to its return, in which no
\* other caller moves, and what is saved is the whole merge of that one sync.
C21_OneLoadOneCallOneSave ==
    /\ [](\A t \in DOMAIN pc : StepsAt(t))
    /\ [][SaveIsOneSyncsMerge]_vars

\* Both syncs were in flight together and both have saved: the file is the
\* merge of the one that saved last, which had seen the other save.
C21_Witness ==
    \E t \in DOMAIN pc, u \in DOMAIN pc :
        /\ Returned(t, "payees")
        /\ Returned(u, "payees")
        /\ result[t].savedMeanwhile = <<u>>
        /\ result[t].steps = <<"load", "call", "save">>
        /\ files[result[t].budgetId][PAYEES_CACHE_FILE] = Stringify(result[t].cache)
        /\ result[t].cache # result[u].cache

----------------------------------------------------------------------------
\* A save that fails.

\* C26: when the save of a sync fails, the sync throws and returns nothing,
\* the file is as the previous successful sync left it, and the next sync
\* would pass the cursor this one passed and be given the same response.
C26_FailedSaveKeepsPreviousCache ==
    \A t \in Callers :
        (pc[t] = "threw" /\ result[t].kind = "payees") =>
            LET r == result[t]
                next == readCache(files, r.budgetId, PAYEES_CACHE_FILE)
            IN /\ files[r.budgetId][PAYEES_CACHE_FILE] = r.fileBefore
               /\ CursorOf(next) = r.passed
               /\ getPayees(remotePayees[r.budgetId], remoteKnowledge[r.budgetId],
                            CursorOf(next)) = r.response

----------------------------------------------------------------------------
\* The queries on a loaded cache.

QueryKinds == {"searchPayeesInCache", "findPayeeById", "getCategoriesByGroup"}

\* The file a query works on.
QueriedFile(kind) ==
    IF kind = "getCategoriesByGroup" THEN CATEGORIES_CACHE_FILE
    ELSE PAYEES_CACHE_FILE

\* A step in which a caller runs a query leaves every file, the remote and
\* the cursors as they were, was given no call of the remote, and has the
\* cache it loaded still equal to what the file holds.
QueryChangesNothing ==
    \A t \in Callers :
        (pc[t] = "idle" /\ pc'[t] = "returned" /\ result'[t].kind \in QueryKinds) =>
            LET r == result'[t] IN
            /\ files' = files
            /\ lastKnowledge' = lastKnowledge
            /\ UNCHANGED <<remoteKnowledge, remotePayees, remoteGroups,
                           remoteCategories>>
            /\ r.calls = <<>>
            /\ r.fsBefore = files
            /\ files'[r.budgetId][QueriedFile(r.kind)] = Stringify(r.cache)

\* C27: the queries on a cache (active records, search by name, lookup by id,
\* grouped view, loading the cache) change neither the loaded cache nor any
\* file, call the remote not at all and start no sync.
C27_QueriesAreReadOnly == [][QueryChangesNothing]_vars

\* A search that found nothing, on a cache older than the remote: the file
\* and its cursor are as before the search.
C27_Witness ==
    \E t \in Callers :
        /\ Returned(t, "searchPayeesInCache")
        /\ result[t].output = <<>>
        /\ result[t].calls = <<>>
        /\ files = result[t].fsBefore
        /\ result[t].cache.server_knowledge < remoteKnowledge[result[t].budgetId]

\* The ids of the records of a list, in the order of the list.
IdsInOrder(list) == [i \in 1..Len(list) |-> list[i].id]

\* C28: the grouped view has one entry per cached group that is neither
\* deleted nor hidden, in cached order, and a cached category is under a group
\* of the view exactly when it is neither deleted nor hidden and carries that
\* group's id; so an active category of a group that is deleted, hidden or not
\* cached is under no group.
C28_GroupedViewJoinsActiveRecords ==
    \A t \in Callers :
        Returned(t, "getCategoriesByGroup") =>
            LET view == result[t].output
                cache == result[t].cache
                shown(i) == Range(view[i].categories)
            IN /\ ExactlyThe([i \in 1..Len(view) |-> view[i].group],
                             cache.category_groups,
                             LAMBDA g : ~g.deleted /\ ~g.hidden)
               /\ \A i \in 1..Len(view), j \in 1..Len(view) :
                     i < j =>
                        \A x \in Positions(cache.category_groups, view[i].group.id),
                           y \in Positions(cache.category_groups, view[j].group.id) :
                           x < y
               /\ \A i \in 1..Len(view) :
                     /\ shown(i) = {c \in Range(cache.categories) :
                                       /\ ~c.deleted
                                       /\ ~c.hidden
                                       /\ c.category_group_id = view[i].group.id}
                     /\ Len(view[i].categories) = Cardinality(shown(i))
               /\ \A c \in Range(cache.categories) :
                     (\A g \in Range(cache.category_groups) :
                          g.id = c.category_group_id => (g.deleted \/ g.hidden)) =>
                        \A i \in 1..Len(view) : c \notin shown(i)

\* The view of a cache with two groups, one of them hidden, and an active
\* category in each: one entry, and the category of the hidden group nowhere.
C28_Witness ==
    \E t \in Callers :
        /\ Returned(t, "getCategoriesByGroup")
        /\ Len(result[t].output) = 1
        /\ Len(result[t].output[1].categories) = 1
        /\ Len(result[t].active) = 2
        /\ \E g \in Range(result[t].cache.category_groups) : g.hidden /\ ~g.deleted

----------------------------------------------------------------------------
\* Renaming a payee.

\* The payee the cache held for the id when the tool was called, if any.
CachedBefore(r) ==
    LET cache == IF r.budgetId = "" THEN Absent
                 ELSE getPayeesFromCache(r.fsBefore, r.budgetId) IN
    IF cache.some THEN FindById(cache.val.payees, r.input.payeeId) ELSE Absent

\* The input passes the validation of the tool.
ValidInput(r) ==
    /\ r.budgetId # ""
    /\ r.input.payeeId # ""
    /\ \E i \in 1..Len(r.input.newName) : r.input.newName[i] # " "
    /\ Len(r.input.newName) <= 500

\* C29: rename_payee rejects invalid input and refuses a payee cached as
\* deleted before any remote call; otherwise the update of the remote is its
\* first call and the payee sync follows only an update that succeeded; when
\* the update fails no sync runs and no file changes.
C29_RenameOrder ==
    \A t \in Callers :
        Returned(t, "rename_payee") =>
            LET r == result[t] IN
            /\ ~ValidInput(r) =>
                  /\ r.calls = <<>>
                  /\ "error" \in DOMAIN r.output
                  /\ files = r.fsBefore
                  /\ remoteKnowledge = r.knowledgeBefore
            /\ (ValidInput(r) /\ CachedBefore(r).some /\ CachedBefore(r).val.deleted) =>
                  /\ r.calls = <<>>
                  /\ "refused" \in DOMAIN r.output
                  /\ files = r.fsBefore
                  /\ remoteKnowledge = r.knowledgeBefore
            /\ (ValidInput(r)
                  /\ ~(CachedBefore(r).some /\ CachedBefore(r).val.deleted)) =>
                  /\ r.calls # <<>>
                  /\ r.calls[1] = "updatePayee"
                  /\ r.calls \in {<<"updatePayee">>, <<"updatePayee", "getPayees">>}
                  /\ Len(r.calls) = 2 <=> r.updated
                  /\ ~r.updated =>
                        /\ files = r.fsBefore
                        /\ remoteKnowledge = r.knowledgeBefore
                        /\ "error" \in DOMAIN r.output
            /\ files # r.fsBefore => r.calls = <<"updatePayee", "getPayees">>

\* A padded name given to a cached live payee: the remote was updated, then
\* the sync brought the trimmed name into the cache.
C29_Witness ==
    \E t \in Callers :
        /\ Returned(t, "rename_payee")
        /\ result[t].input.newName = <<" ", "b", " ">>
        /\ CachedBefore(result[t]).some
        /\ result[t].calls = <<"updatePayee", "getPayees">>
        /\ "renamed" \in DOMAIN result[t].output
        /\ \E p \in Range(readCache(files, result[t].budgetId,
                                     PAYEES_CACHE_FILE).val.payees) :
              p.id = result[t].input.payeeId /\ p.name = <<"b">>

----------------------------------------------------------------------------
\* The request count after a response.

\* The count the tracker reports: the one in memory, or the one of the file
\* when the process has not looked at it yet.
TrackedCount == ensureCacheLoaded(Memory, globalFiles).requestsUsed

\* The header is there and is not the empty text.
HeaderGiven(r) == r.header.some /\ r.header.val # <<>>

\* Every character of the header is a decimal digit.
HeaderNumeric(r) ==
    HeaderGiven(r) /\ \A i \in 1..Len(r.header.val) : IsDigit(r.header.val[i])

\* C30: after a response, a numeric header has set the count to its value,
\* on error responses too; a header that is not numeric has left the count
\* as it was; and without a header, or with an empty one, the count has
\* grown by one for a successful response and not at all for an error.
C30_CountFollowsResponse ==
    \A t \in Callers :
        Returned(t, "post") =>
            LET r == result[t] IN
            /\ HeaderNumeric(r) => TrackedCount = DecimalValue(r.header.val)
            /\ (HeaderGiven(r) /\ ~HeaderNumeric(r)) => TrackedCount = r.before
            /\ ~HeaderGiven(r) =>
                  TrackedCount = IF r.ok THEN r.before + 1 ELSE r.before

====
